---- MODULE Spec2Model ----
(***************************************************************************)
(* Retrieval core of the clinical-note RAG pipeline                        *)
(* (backend/app/services/rag_service.py, mirrored in src/utils.py,         *)
(* src/vector_store.py and src/rag_pipeline.py): the sectionizer, the      *)
(* character chunker, the chunk assembler, the embedding index with its    *)
(* retriever, the embedder cache, and the two services that run them       *)
(* (analyze_clinical_note and chat_service.chat_with_note).                *)
(*                                                                         *)
(* A Python str is modelled as a sequence of one-character strings, so     *)
(* that strip(), upper(), slicing, the header regular expressions and the  *)
(* f-string that builds a chunk_id are computed character by character.    *)
(***************************************************************************)
EXTENDS Integers, Sequences, FiniteSets, TLC

VARIABLES
    full_text,   \* the document handed to the sectionizer / chunk assembler
    doc_id,      \* the doc_id argument of prepare_chunks_from_text
    sections,    \* the list returned by split_into_sections
    chunks,      \* the list returned by prepare_chunks_from_text
    pc,          \* "input" | "sectioned" | "chunked" | "indexed" | "retrieved" | "idle"
    ct_arg,      \* chunk_text: the text argument as passed
    ct_text,     \* chunk_text: the local `text` (after the strip of line 85)
    max_chars,   \* chunk_text: the max_chars argument
    start,       \* chunk_text: the loop variable `start`
    ct_chunks,   \* chunk_text: the local list `chunks`
    ct_pc,       \* chunk_text: "call" | "loop" | "done" ("idle" under Spec)
    embedder,    \* the embedder handed to build_index_from_chunks / retrieve_from_index
    index,       \* the faiss.IndexFlatIP returned by build_index_from_chunks
    id_map,      \* the id_map returned with it: position -> reference to a chunk
    query,       \* retrieve_from_index: the query argument
    top_k,       \* retrieve_from_index: the top_k argument
    retrieved,   \* the list returned by retrieve_from_index
    error,       \* the exception the last call raised ("none" if it returned)
    calls,       \* per running service invocation: its arguments and locals
    indexes,     \* per running service invocation: its locals index and id_map
    started,     \* how many service invocations have been started
    embedder_cache,  \* the module-level dict _embedder_cache
    loads,       \* per model key: how many times SentenceTransformer(...) ran
    ge,          \* per thread inside get_embedder: its position and locals
    route,       \* the endpoint that received the request
    req_text,    \* request.text (analyze) or request.question (the chats)
    req_context, \* request.analysis_context is truthy (chat endpoint)
    route_pc,    \* position of the route handler
    route_exc,   \* the exception in flight in the handler, if any
    response,    \* what the client gets: status code and detail
    service_calls, \* how many times the handler called its service
    llm_module,  \* the module whose call_llm runs
    llm_entry,   \* the caller of call_llm
    llm_mode,    \* the llm_mode argument (LLM_MODE in src/src)
    fault,       \* what the backend's environment does to this call
    backend,     \* the backend function call_llm dispatched to
    llm_pc,      \* position of the call
    llm_result,  \* what call_llm gave its caller: a value or an exception
    an,          \* arguments, locals and result of one analysis invocation
    ch,          \* arguments, locals and result of one chat_with_note invocation
    llm_calls,   \* the calls of call_llm the running invocation has made
    ops          \* the pipeline functions the running invocation has called

vars == <<full_text, doc_id, sections, chunks, pc,
          ct_arg, ct_text, max_chars, start, ct_chunks, ct_pc,
          embedder, index, id_map, query, top_k, retrieved, error,
          calls, indexes, started, embedder_cache, loads, ge,
          route, req_text, req_context, route_pc, route_exc, response,
          service_calls,
          llm_module, llm_entry, llm_mode, fault, backend, llm_pc, llm_result,
          an, ch, llm_calls, ops>>

pipe_vars == <<full_text, doc_id, sections, chunks, pc>>
chunker_vars == <<ct_arg, ct_text, max_chars, start, ct_chunks, ct_pc>>
index_vars == <<embedder, index, id_map, query, top_k, retrieved, error>>
service_vars == <<calls, indexes, started>>
cache_vars == <<embedder_cache, loads>>
route_vars == <<route, req_text, req_context, route_pc, route_exc, response,
                service_calls>>
llm_vars == <<llm_module, llm_entry, llm_mode, fault, backend, llm_pc, llm_result>>
orch_vars == <<an, ch, llm_calls, ops>>
app_vars == <<route_vars, llm_vars, orch_vars>>

-----------------------------------------------------------------------------
(* Bounds of the model.                                                    *)

\* A document is a concatenation of at most MaxFrags fragments.
MaxFrags == 3
\* At most MaxLong of them are the long filler (one full chunk window).
MaxLong == 1
\* chunk_text is stepped on texts of at most MaxCtLen characters ...
MaxCtLen == 4
\* ... with max_chars drawn from -1 .. MaxMaxChars.
MaxMaxChars == 3
\* retrieve_from_index is called with top_k in 1 .. MaxTopK and with the
\* defaults of the two services.
MaxTopK == 2
\* At most MaxCalls service invocations are started in one run ...
MaxCalls == 2
\* ... and NumThreads threads enter get_embedder side by side.
NumThreads == 2

-----------------------------------------------------------------------------
(* Program constants.                                                      *)

\* max_chars as prepare_chunks_from_text passes it to chunk_text
MaxChars == 1500
\* header[:20] in the chunk_id
HeaderChars == 20
\* str(uuid.uuid4())[:8] in the chunk_id
SuffixChars == 8
\* the widths of the two embedding models
EMBED_DIM == 768
EMBED_DIM_SMALL == 384
\* the default top_k of retrieve_from_index and analyze_clinical_note
TOP_K == 6
\* the top_k of chat_with_note
CHAT_TOP_K == 3

-----------------------------------------------------------------------------
(* Characters and the str methods the code uses.                           *)

\* str.upper() on one character (ASCII letters; everything else is kept).
UpperMap ==
    ("a" :> "A") @@ ("b" :> "B") @@ ("c" :> "C") @@ ("d" :> "D") @@
    ("e" :> "E") @@ ("f" :> "F") @@ ("g" :> "G") @@ ("h" :> "H") @@
    ("i" :> "I") @@ ("j" :> "J") @@ ("k" :> "K") @@ ("l" :> "L") @@
    ("m" :> "M") @@ ("n" :> "N") @@ ("o" :> "O") @@ ("p" :> "P") @@
    ("q" :> "Q") @@ ("r" :> "R") @@ ("s" :> "S") @@ ("t" :> "T") @@
    ("u" :> "U") @@ ("v" :> "V") @@ ("w" :> "W") @@ ("x" :> "X") @@
    ("y" :> "Y") @@ ("z" :> "Z")

upper_char(c) == IF c \in DOMAIN UpperMap THEN UpperMap[c] ELSE c

\* s.upper()
upper(s) == [i \in 1..Len(s) |-> upper_char(s[i])]

\* The characters str.strip() removes and the regex class \s matches.
IsSpace(c) == c \in {" ", "\n", "\t"}

Min(a, b) == IF a <= b THEN a ELSE b
Max(a, b) == IF a >= b THEN a ELSE b
MinOf(S) == CHOOSE x \in S : \A y \in S : x <= y

\* Index of the first non-space character of s at or after i (Len(s)+1 if none).
RECURSIVE SkipSpaces(_, _)
SkipSpaces(s, i) ==
    IF i <= Len(s) /\ IsSpace(s[i]) THEN SkipSpaces(s, i + 1) ELSE i

\* Index of the last non-space character of s at or before i (0 if none).
RECURSIVE SkipSpacesBack(_, _)
SkipSpacesBack(s, i) ==
    IF i >= 1 /\ IsSpace(s[i]) THEN SkipSpacesBack(s, i - 1) ELSE i

\* s.strip()
strip(s) ==
    LET a == SkipSpaces(s, 1)
        b == SkipSpacesBack(s, Len(s))
    IN  IF a > b THEN <<>> ELSE SubSeq(s, a, b)

\* s[a:b] with Python's 0-based indices; a negative index counts from the end
\* and both are clamped to 0..len(s).
PyIndex(ix, len) == IF ix < 0 THEN Max(ix + len, 0) ELSE Min(ix, len)
PySlice(s, a, b) ==
    LET lo == PyIndex(a, Len(s))
        hi == PyIndex(b, Len(s))
    IN  IF lo >= hi THEN <<>> ELSE SubSeq(s, lo + 1, hi)

\* str(n) for n >= 0
DigitChars == <<"0","1","2","3","4","5","6","7","8","9">>
RECURSIVE str_int(_)
str_int(n) ==
    IF n < 10 THEN <<DigitChars[n + 1]>>
    ELSE str_int(n \div 10) \o <<DigitChars[(n % 10) + 1]>>

-----------------------------------------------------------------------------
(* Sectionizer                                                             *)

UNLABELED == <<"U","N","L","A","B","E","L","E","D">>

\* The literal part of each header pattern, in the order of the alternation;
\* every pattern ends in [:\s]*, which HeaderTrailEnd consumes.
SECTION_HEADERS == <<
    <<"H","I","S","T","O","R","Y"," ","O","F"," ","P","R","E","S","E","N","T"," ","I","L","L","N","E","S","S">>,
    <<"H","P","I">>,
    <<"P","A","S","T"," ","M","E","D","I","C","A","L"," ","H","I","S","T","O","R","Y">>,
    <<"M","E","D","I","C","A","L"," ","H","I","S","T","O","R","Y">>,
    <<"P","H","Y","S","I","C","A","L"," ","E","X","A","M","I","N","A","T","I","O","N">>,
    <<"P","H","Y","S","I","C","A","L"," ","E","X","A","M">>,
    <<"A","S","S","E","S","S","M","E","N","T">>,
    <<"P","L","A","N">>,
    <<"L","A","B","O","R","A","T","O","R","Y">>,
    <<"L","A","B","S">>,
    <<"I","M","A","G","I","N","G">>,
    <<"M","E","D","I","C","A","T","I","O","N","S">>,
    <<"A","L","L","E","R","G","I","E","S">>,
    <<"R","O","S">> >>

\* The literal `lit` matches text at position p under re.IGNORECASE.
LiteralAt(text, p, lit) ==
    /\ p + Len(lit) - 1 <= Len(text)
    /\ \A i \in 1..Len(lit) : upper_char(text[p + i - 1]) = lit[i]

\* The alternative the regex engine takes at position p: the first one, in the
\* order of SECTION_HEADERS, whose literal matches there (0 if none does).
HeaderAt(text, p) ==
    LET ks == {k \in 1..Len(SECTION_HEADERS) : LiteralAt(text, p, SECTION_HEADERS[k])}
    IN  IF ks = {} THEN 0 ELSE MinOf(ks)

\* The greedy [:\s]* after a header literal: the first position at or after q
\* that holds neither a colon nor whitespace.
RECURSIVE HeaderTrailEnd(_, _)
HeaderTrailEnd(text, q) ==
    IF q <= Len(text) /\ (text[q] = ":" \/ IsSpace(text[q]))
    THEN HeaderTrailEnd(text, q + 1)
    ELSE q

\* The leftmost, non-overlapping matches of the header pattern from position
\* `from` on, as re.split finds them: each is [first |-> p, next |-> q], the
\* match being text[p..q-1]. cands holds the positions where a literal matches.
RECURSIVE ScanMatches(_, _, _)
ScanMatches(text, cands, from) ==
    LET later == {p \in cands : p >= from}
    IN  IF later = {} THEN <<>>
        ELSE LET p == MinOf(later)
                 q == HeaderTrailEnd(text, p + Len(SECTION_HEADERS[HeaderAt(text, p)]))
             IN  <<[first |-> p, next |-> q]>> \o ScanMatches(text, cands, q)

\* The first characters of the header literals: a match can only begin at one.
HeaderInitials == {SECTION_HEADERS[k][1] : k \in 1..Len(SECTION_HEADERS)}

header_matches(text) ==
    ScanMatches(text,
                {p \in 1..Len(text) :
                    upper_char(text[p]) \in HeaderInitials /\ HeaderAt(text, p) # 0},
                1)

\* re.split(pattern, text, flags=re.IGNORECASE) with the one capturing group:
\* the text before the first match, then for each match the matched header and
\* the text up to the next match (or the end).
re_split(text) ==
    LET ms == header_matches(text)
        m  == Len(ms)
        StartOf(k) == IF k <= m THEN ms[k].first ELSE Len(text) + 1
    IN  [j \in 1..(2 * m + 1) |->
            IF j % 2 = 0
            THEN SubSeq(text, ms[j \div 2].first, ms[j \div 2].next - 1)
            ELSE IF j = 1 THEN SubSeq(text, 1, StartOf(1) - 1)
                 ELSE SubSeq(text, ms[j \div 2].next, StartOf((j \div 2) + 1) - 1)]

\* Line 62 / line 68: the single section of a text with no header match.
NoHeaderSections(body) == <<[section |-> UNLABELED, body |-> body]>>

\* LeadSections with the first header left in the text before it.
LeadSections_withheader(parts) ==
    IF strip(parts[1]) # <<>>
    THEN <<[section |-> UNLABELED, body |-> strip(parts[1] \o parts[2])]>>
    ELSE <<>>

\* Lines 71-72: the text before the first header, kept only if not blank.
LeadSections(parts) ==
    IF strip(parts[1]) # <<>>
    THEN <<[section |-> UNLABELED, body |-> strip(parts[1])]>>
    ELSE <<>>

\* HeaderSection with the strip of the body (line 77) forgotten.
HeaderSection_rawbody(parts, i) ==
    [section |-> IF parts[i + 1] # <<>> THEN upper(strip(parts[i + 1])) ELSE UNLABELED,
     body    |-> IF i + 1 < Len(parts) THEN parts[i + 2] ELSE <<>>]

\* Lines 76-78: the section of the header at parts[i] (i is 0-based in the
\* code, so the header is parts[i + 1] here and its body parts[i + 2]).
HeaderSection(parts, i) ==
    [section |-> IF parts[i + 1] # <<>> THEN upper(strip(parts[i + 1])) ELSE UNLABELED,
     body    |-> IF i + 1 < Len(parts) THEN strip(parts[i + 2]) ELSE <<>>]

\* split_into_sections with the strip of line 68 forgotten.
split_into_sections_rawbody(text) ==
    IF text = <<>> \/ strip(text) = <<>>
    THEN NoHeaderSections(<<>>)
    ELSE LET parts == re_split(text)
         IN  IF Len(parts) <= 1
             THEN NoHeaderSections(text)
             ELSE LeadSections(parts) \o
                  [k \in 1..(Len(parts) \div 2) |-> HeaderSection(parts, 2 * k - 1)]

split_into_sections(text) ==
    IF text = <<>> \/ strip(text) = <<>>
    THEN NoHeaderSections(<<>>)
    ELSE LET parts == re_split(text)
         IN  IF Len(parts) <= 1
             THEN NoHeaderSections(strip(text))
             ELSE \* the while loop: i = 1, 3, 5, ... while i < len(parts)
                  LeadSections(parts) \o
                  [k \in 1..(Len(parts) \div 2) |-> HeaderSection(parts, 2 * k - 1)]

-----------------------------------------------------------------------------
(* Inputs                                                                  *)

\* The two sections of the end-to-end scenario.
NoteHPI ==
    <<"H","I","S","T","O","R","Y"," ","O","F"," ","P","R","E","S","E","N","T"," ","I","L","L","N","E","S","S",":"," ","f","e","v","e","r"," ","a","n","d"," ","h","e","a","d","a","c","h","e",".">>
NoteLab ==
    <<"L","A","B","O","R","A","T","O","R","Y",":"," ","W","B","C"," ","e","l","e","v","a","t","e","d",".">>


\* The section body that fills exactly one chunk window.
Filler == [i \in 1..MaxChars |-> "x"]

Fragments == <<
    NoteHPI,
    NoteLab,
    <<"p","l","a","n">>,
    <<":">>,
    <<"\n">>,
    <<"x">>,
    Filler >>

FillerIx == Len(Fragments)

RECURSIVE Concat(_, _)
Concat(fs, i) == IF i > Len(fs) THEN <<>> ELSE Fragments[fs[i]] \o Concat(fs, i + 1)

FragSeqs ==
    {fs \in UNION {[1..n -> 1..Len(Fragments)] : n \in 0..MaxFrags} :
        Cardinality({i \in 1..Len(fs) : fs[i] = FillerIx}) <= MaxLong}

Documents == {Concat(fs, 1) : fs \in FragSeqs}

\* doc_id defaults to 0; 12 makes str(doc_id) more than one digit.
DocIds == {0, 12}

\* The values str(uuid.uuid4()) may take (two of them).
Uuids == {
    <<"0","0","0","0","0","0","0","0","-","0","0","0","0","-","4","0","0","0","-","8","0","0","0","-","0","0","0","0","0","0","0","0","0","0","0","0">>,
    <<"a","1","b","2","c","3","d","4","-","e","5","f","6","-","4","a","7","b","-","8","c","9","d","-","e","0","f","1","a","2","b","3","c","4","d","5">> }

\* The documents an index is built from: the empty one, a blank one, two
\* sections with the same body, the scenario note, and one-section notes.
IndexFragSeqs ==
    {<<>>, <<5>>, <<3, 6, 3, 6>>, <<1, 5, 2>>, <<2, 3, 6>>, <<1>>, <<6>>}

IndexDocs == {Concat(fs, 1) : fs \in IndexFragSeqs}

\* a free-text question
Question == <<"f","e","v","e","r">>

\* The documents the services are run on.
SvcDocs == {NoteHPI, NoteLab}

TopKs == (1..MaxTopK) \cup {CHAT_TOP_K, TOP_K}

SvcTopKs == {MaxTopK, TOP_K}

\* An embedder as get_embedder returns it.
Embedders == {[model |-> k, id |-> 1] : k \in {"small", "large"}}

\* Texts and window sizes chunk_text is stepped on.
CtAlphabet == {"a", " "}
CtTexts == UNION {[1..n -> CtAlphabet] : n \in 0..MaxCtLen}
CtMaxChars == (0 - 1)..MaxMaxChars
\* The list of a call that never leaves its loop grows until memory runs out;
\* the model follows such a call for this many windows and no further. With
\* max_chars >= 1 a text of n characters gives at most n windows, so a call
\* that returns is never cut short.
WindowCap == MaxCtLen + 1

-----------------------------------------------------------------------------
(* Chunker                                                                 *)

\* ChunkEnd one character too far (an inclusive end index).
ChunkEnd_inclusive(text, st, mc) == Min(st + mc + 1, Len(text))

\* end = min(start + max_chars, n)
ChunkEnd(text, st, mc) == Min(st + mc, Len(text))

\* chunk = text[start:end].strip()
ChunkAt(text, st, mc) == strip(PySlice(text, st, ChunkEnd(text, st, mc)))

\* the while loop of chunk_text, run to its end (max_chars >= 1)
RECURSIVE chunk_loop(_, _, _, _)
chunk_loop(text, st, mc, acc) ==
    IF st < Len(text)
    THEN chunk_loop(text, ChunkEnd(text, st, mc), mc, Append(acc, ChunkAt(text, st, mc)))
    ELSE acc

chunk_text(text, mc) ==
    LET t == strip(text)
    IN  IF t = <<>> THEN <<>> ELSE chunk_loop(t, 0, mc, <<>>)

-----------------------------------------------------------------------------
(* Chunk assembler                                                         *)

\* chunk_id_of without the sequence number.
chunk_id_of_noseq(doc, header, chunk_seq, uuid) ==
    str_int(doc) \o <<"_">> \o PySlice(header, 0, HeaderChars) \o <<"_">>
        \o PySlice(uuid, 0, SuffixChars)

\* chunk_id_of with the whole header instead of header[:20].
chunk_id_of_fullheader(doc, header, chunk_seq, uuid) ==
    str_int(doc) \o <<"_">> \o header \o <<"_">>
        \o str_int(chunk_seq) \o <<"_">> \o PySlice(uuid, 0, SuffixChars)

\* f"{doc_id}_{header[:20]}_{chunk_seq}_{str(uuid.uuid4())[:8]}"
chunk_id_of(doc, header, chunk_seq, uuid) ==
    str_int(doc) \o <<"_">> \o PySlice(header, 0, HeaderChars) \o <<"_">>
        \o str_int(chunk_seq) \o <<"_">> \o PySlice(uuid, 0, SuffixChars)

\* SectionChunks numbering with the index of enumerate(sec_chunks), which
\* starts again at 0 in every section.
SectionChunks_enumerate(header, sec_chunks, doc, chunk_seq, uuids) ==
    [i \in 1..Len(sec_chunks) |->
        [chunk_id  |-> chunk_id_of(doc, header, i - 1, uuids[chunk_seq + i]),
         text      |-> sec_chunks[i],
         section   |-> header,
         doc_id    |-> doc,
         chunk_num |-> i - 1]]

\* The inner loop over one section's windows; chunk_seq is the counter on
\* entry and uuids[q] is the q-th uuid4() drawn in the call.
SectionChunks(header, sec_chunks, doc, chunk_seq, uuids) ==
    [i \in 1..Len(sec_chunks) |->
        [chunk_id  |-> chunk_id_of(doc, header, chunk_seq + i - 1, uuids[chunk_seq + i]),
         text      |-> sec_chunks[i],
         section   |-> header,
         doc_id    |-> doc,
         chunk_num |-> chunk_seq + i - 1]]

\* The outer loop over sections k, k+1, ...
RECURSIVE SectionLoop(_, _, _, _, _)
SectionLoop(secs, k, doc, chunk_seq, uuids) ==
    IF k > Len(secs) THEN <<>>
    ELSE LET header == IF secs[k].section # <<>> THEN secs[k].section ELSE UNLABELED
             body   == IF secs[k].body # <<>> THEN secs[k].body ELSE <<>>
             sec_chunks == chunk_text(body, MaxChars)
         IN  SectionChunks(header, sec_chunks, doc, chunk_seq, uuids)
                 \o SectionLoop(secs, k + 1, doc, chunk_seq + Len(sec_chunks), uuids)

\* FallbackChunk with the input trimmed.
FallbackChunk_stripped(text, doc) ==
    [chunk_id  |-> str_int(doc) \o <<"_">> \o UNLABELED \o <<"_","0">>,
     text      |-> strip(text),
     section   |-> UNLABELED,
     doc_id    |-> doc,
     chunk_num |-> 0]

\* The chunk appended when the loops produced none.
FallbackChunk(text, doc) ==
    [chunk_id  |-> str_int(doc) \o <<"_">> \o UNLABELED \o <<"_","0">>,
     text      |-> text,
     section   |-> UNLABELED,
     doc_id    |-> doc,
     chunk_num |-> 0]

\* prepare_chunks_from_text without the fallback chunk.
prepare_chunks_from_text_nofallback(text, doc, uuids) ==
    SectionLoop(split_into_sections(text), 1, doc, 0, uuids)

prepare_chunks_from_text(text, doc, uuids) ==
    LET cs == SectionLoop(split_into_sections(text), 1, doc, 0, uuids)
    IN  IF cs = <<>> THEN <<FallbackChunk(text, doc)>> ELSE cs

\* How many times one call draws uuid4(): once per window.
RECURSIVE UuidDraws(_, _)
UuidDraws(secs, k) ==
    IF k > Len(secs) THEN 0
    ELSE Len(chunk_text(secs[k].body, MaxChars)) + UuidDraws(secs, k + 1)

-----------------------------------------------------------------------------
(* Embedding models                                                        *)
(*                                                                         *)
(* A vector of d components is the record [d, v, n2]: its first Len(v)     *)
(* components are v[i] / sqrt(n2) and the others are 0. encode gives a     *)
(* text a direction that depends on the model and on the text only; two    *)
(* texts may get the same direction, as they do with a real model (the     *)
(* small one is uncased).                                                  *)

ModelKeys == {"small", "large"}

\* the width of the vectors of SentenceTransformer(model_name)
ModelDim(key) == IF key = "small" THEN EMBED_DIM_SMALL ELSE EMBED_DIM

CountOf(text, cs) == Cardinality({i \in 1..Len(text) : text[i] \in cs})

Features(key, text) ==
    IF key = "small"
    THEN <<1, CountOf(text, {"e", "E"})>>
    ELSE <<1, CountOf(text, {"e"}), CountOf(text, {"x"})>>

\* embedder.encode(texts, convert_to_numpy=True): one row per text
encode(emb, texts) ==
    [i \in 1..Len(texts) |->
        [d |-> ModelDim(emb.model), v |-> Features(emb.model, texts[i]), n2 |-> 1]]

RECURSIVE DotFrom(_, _, _)
DotFrom(a, b, i) ==
    IF i > Len(a) \/ i > Len(b) THEN 0 ELSE a[i] * b[i] + DotFrom(a, b, i + 1)

Dot(a, b) == DotFrom(a, b, 1)

\* normalize_L2 that leaves the row as it is.
normalize_L2_raw(x) == x

\* faiss.normalize_L2 on one row: divide by the L2 norm (a zero row is kept)
normalize_L2(x) ==
    IF Dot(x.v, x.v) = 0 THEN x ELSE [x EXCEPT !.n2 = Dot(x.v, x.v)]

\* The inner product of two rows, kept exact as the signed square
\* num / den of its value (the map t -> t * |t| is increasing, so the order
\* of two scores is the order of their signed squares).
inner_product(a, b) ==
    LET dt == Dot(a.v, b.v)
    IN  [num |-> IF dt < 0 THEN 0 - dt * dt ELSE dt * dt, den |-> a.n2 * b.n2]

ScoreLE(a, b) == a.num * b.den <= b.num * a.den

\* a score of 1.0
IsOne(sc) == sc.num = sc.den

\* the distance faiss reports next to the label -1
NegInf == [num |-> 0 - 2, den |-> 1]

-----------------------------------------------------------------------------
(* faiss.IndexFlatIP                                                       *)

NoIndex == [d |-> 0, xb |-> <<>>]

IndexFlatIP(dim) == [d |-> dim, xb |-> <<>>]

\* index.add(embeddings): the rows are appended in order
index_add(ix, rows) == [ix EXCEPT !.xb = @ \o rows]

ntotal(ix) == Len(ix.xb)

\* The label rows index.search(q, k) may return: the min(k, ntotal) best
\* positions by inner product, best first, then -1 up to k labels. The order
\* among equal scores is the library's choice.
SearchLabels(ix, q, k) ==
    LET n  == ntotal(ix)
        m  == Min(k, n)
        sc == [i \in 0..(n - 1) |-> inner_product(q, ix.xb[i + 1])]
        hits == {s \in [1..m -> 0..(n - 1)] :
                    /\ \A i, j \in 1..m : i # j => s[i] # s[j]
                    /\ \A j \in 1..(m - 1) : ScoreLE(sc[s[j + 1]], sc[s[j]])
                    /\ \A i \in 0..(n - 1) :
                          (\A j \in 1..m : s[j] # i) =>
                              \A j \in 1..m : ScoreLE(sc[i], sc[s[j]])}
    IN  {[j \in 1..k |-> IF j <= m THEN s[j] ELSE 0 - 1] : s \in hits}

\* The distance row that goes with a label row.
SearchDistances(ix, q, labels) ==
    [j \in 1..Len(labels) |->
        IF labels[j] < 0 THEN NegInf ELSE inner_product(q, ix.xb[labels[j] + 1])]

-----------------------------------------------------------------------------
(* Index builder and retriever                                             *)
(*                                                                         *)
(* The chunk dicts live in the list `chunks`; id_map holds references to   *)
(* them, modelled as positions in that list.                               *)

\* id_map with the chunks in reverse order.
IdMap_reversed(cs) == [i \in 0..(Len(cs) - 1) |-> Len(cs) - i]

\* id_map = {i: chunks[i] for i in range(len(chunks))}
IdMap(cs) == [i \in 0..(Len(cs) - 1) |-> i + 1]

build_index_from_chunks(cs, emb) ==
    LET texts      == [i \in 1..Len(cs) |-> cs[i].text]
        embeddings == encode(emb, texts)
    IN  IF embeddings = <<>>
        THEN [index |-> NoIndex, id_map |-> <<>>, embeddings |-> <<>>,
              error |-> "IndexError"]
        ELSE LET dim  == embeddings[1].d
                 rows == [i \in 1..Len(embeddings) |-> normalize_L2(embeddings[i])]
             IN  [index |-> index_add(IndexFlatIP(dim), rows),
                  id_map |-> IdMap(cs),
                  embeddings |-> rows,
                  error |-> "none"]

\* item = id_map[idx].copy(); item["score"] = float(score)
ScoredCopy(c, sc) ==
    [chunk_id  |-> c.chunk_id,
     text      |-> c.text,
     section   |-> c.section,
     doc_id    |-> c.doc_id,
     chunk_num |-> c.chunk_num,
     score     |-> sc]

\* what stands in for a missing hit in RetrieveStep_placeholder
Placeholder(sc) ==
    [chunk_id |-> <<>>, text |-> <<>>, section |-> <<>>, doc_id |-> 0,
     chunk_num |-> 0 - 1, score |-> sc]

\* RetrieveStep that fills a missing hit with a placeholder.
RetrieveStep_placeholder(heap, idm, label, sc, results) ==
    IF label < 0
    THEN [results |-> Append(results, Placeholder(sc)), heap |-> heap]
    ELSE [results |-> Append(results, ScoredCopy(heap[idm[label]], sc)),
          heap |-> heap]

\* RetrieveStep that scores the dict of id_map itself instead of a copy.
RetrieveStep_nocopy(heap, idm, label, sc, results) ==
    IF label < 0
    THEN [results |-> results, heap |-> heap]
    ELSE [results |-> Append(results, ScoredCopy(heap[idm[label]], sc)),
          heap |-> [heap EXCEPT ![idm[label]] = ScoredCopy(@, sc)]]

\* One iteration of the loop over zip(I[0], D[0]).
RetrieveStep(heap, idm, label, sc, results) ==
    IF label < 0
    THEN [results |-> results, heap |-> heap]
    ELSE [results |-> Append(results, ScoredCopy(heap[idm[label]], sc)),
          heap |-> heap]

RECURSIVE RetrieveLoop(_, _, _, _, _)
RetrieveLoop(labels, dists, idm, j, acc) ==
    IF j > Len(labels) THEN acc
    ELSE RetrieveLoop(labels, dists, idm, j + 1,
                      RetrieveStep(acc.heap, idm, labels[j], dists[j], acc.results))

\* the query row of retrieve_from_index
QueryRow(q, emb) == normalize_L2(encode(emb, <<q>>)[1])

\* retrieve_from_index(query, embedder, index, id_map, top_k) over the chunk
\* dicts `heap`, with `labels` the row index.search returned. A query row of
\* another width than the index fails the assertion of index.search.
retrieve_from_index(q, emb, ix, idm, k, labels, heap) ==
    IF QueryRow(q, emb).d # ix.d
    THEN [results |-> <<>>, heap |-> heap, error |-> "AssertionError"]
    ELSE LET r == RetrieveLoop(labels, SearchDistances(ix, QueryRow(q, emb), labels),
                               idm, 1, [results |-> <<>>, heap |-> heap])
         IN  [results |-> r.results, heap |-> r.heap, error |-> "none"]

-----------------------------------------------------------------------------
(* Embedder cache                                                          *)

NoEmbedder == [model |-> "none", id |-> 0]

EmptyCache == [k \in {} |-> NoEmbedder]

NoLoads == [k \in ModelKeys |-> 0]

\* key = "small" if use_small else "large"
CacheKey(use_small) == IF use_small THEN "small" ELSE "large"

\* CacheMiss that never finds the key.
CacheMiss_always(cache, key) == TRUE

\* if key not in _embedder_cache
CacheMiss(cache, key) == key \notin DOMAIN cache

\* SentenceTransformer(model_name): a new object each time it runs; ld counts
\* the constructions so far.
NewModel(key, ld) == [model |-> key, id |-> ld["small"] + ld["large"] + 1]

\* _embedder_cache[key] = inst
CacheStore(cache, key, inst) ==
    [k \in (DOMAIN cache) \cup {key} |-> IF k = key THEN inst ELSE cache[k]]

\* get_embedder(use_small), run without interruption.
get_embedder(cache, ld, use_small) ==
    LET key == CacheKey(use_small)
    IN  IF CacheMiss(cache, key)
        THEN [cache  |-> CacheStore(cache, key, NewModel(key, ld)),
              loads  |-> [ld EXCEPT ![key] = @ + 1],
              result |-> NewModel(key, ld)]
        ELSE [cache |-> cache, loads |-> ld, result |-> cache[key]]

-----------------------------------------------------------------------------
(* The two services                                                        *)

Callers == {1, 2}

Threads == 1..NumThreads

IdleCall ==
    [kind |-> "none", pc |-> "idle", full_text |-> <<>>, question |-> <<>>,
     use_small |-> FALSE, top_k |-> TOP_K, embedder |-> NoEmbedder,
     chunks |-> <<>>, retrieved |-> <<>>, error |-> "none",
     built_with |-> NoEmbedder, queried_with |-> NoEmbedder]

NoLocals == [index |-> NoIndex, id_map |-> <<>>, chunks |-> <<>>]

IdleThread ==
    [pc |-> "idle", use_small |-> FALSE, model |-> NoEmbedder, result |-> NoEmbedder]

\* Where an invocation keeps index and id_map: one module-level place.
IndexSlot_global(p) == 1

\* Where an invocation keeps index and id_map: in its own locals.
IndexSlot(p) == p

\* The embedder handed to retrieve_from_index: a default one.
RetrieveEmbedder_default(c) == [model |-> "large", id |-> 0]

\* The embedder handed to retrieve_from_index: the local `embedder`.
RetrieveEmbedder(c) == c.embedder

\* the use_small argument of the service's get_embedder call
UseSmallArg(c) == IF c.kind = "chat" THEN FALSE ELSE c.use_small

\* the query argument of the service's retrieve_from_index call
QueryArg(c) == IF c.kind = "chat" THEN c.question ELSE c.full_text

-----------------------------------------------------------------------------
(* The state machine                                                       *)

\* What the variables of a part of the program hold while it is not running.
PipeIdle ==
    /\ full_text = <<>>
    /\ doc_id = 0
    /\ sections = <<>>
    /\ chunks = <<>>
    /\ pc = "idle"

ChunkerIdle ==
    /\ ct_arg = <<>>
    /\ ct_text = <<>>
    /\ max_chars = MaxChars
    /\ start = 0
    /\ ct_chunks = <<>>
    /\ ct_pc = "idle"

IndexIdle ==
    /\ embedder = NoEmbedder
    /\ index = NoIndex
    /\ id_map = <<>>
    /\ query = <<>>
    /\ top_k = TOP_K
    /\ retrieved = <<>>
    /\ error = "none"

ServiceIdle ==
    /\ calls = [p \in Callers |-> IdleCall]
    /\ indexes = [p \in Callers |-> NoLocals]
    /\ started = 0

CacheIdle ==
    /\ embedder_cache = EmptyCache
    /\ loads = NoLoads
    /\ ge = [t \in Threads |-> IdleThread]

\* No exception in flight; no response sent yet; call_llm not called yet.
NoException == [type |-> "none", status_code |-> 0, detail |-> "none"]
NoResponse == [status_code |-> 0, detail |-> "none"]
NoResult == [kind |-> "none", text |-> "none"]

\* Python's None, and a dict with no key.
None == [t |-> "null", v |-> <<>>]
NoDict == [k \in {} |-> None]

\* The locals of the orchestrators before they are called.
IdleAn ==
    [module |-> "none", pc |-> "idle", full_text |-> <<>>, llm_mode |-> "none",
     top_k |-> TOP_K, use_small_embedder |-> FALSE, embedder |-> NoEmbedder,
     chunks |-> <<>>, index |-> NoIndex, id_map |-> <<>>, retrieved |-> <<>>,
     context |-> <<>>, step1_output |-> <<>>, step2_output |-> <<>>,
     soap_output |-> <<>>, result |-> NoDict]

IdleCh ==
    [pc |-> "idle", question |-> <<>>, analysis_context |-> NoDict,
     chat_history |-> <<>>, llm_mode |-> "none", top_k |-> CHAT_TOP_K,
     all_chunks |-> <<>>, soap |-> <<>>, ddx |-> None, embedder |-> NoEmbedder,
     index |-> NoIndex, id_map |-> <<>>, retrieved |-> <<>>, answer |-> <<>>,
     result |-> NoDict]

RouteIdle ==
    /\ route = "none"
    /\ req_text = <<>>
    /\ req_context = FALSE
    /\ route_pc = "idle"
    /\ route_exc = NoException
    /\ response = NoResponse
    /\ service_calls = 0

LlmIdle ==
    /\ llm_module = "none"
    /\ llm_entry = "none"
    /\ llm_mode = "none"
    /\ fault = "none"
    /\ backend = "none"
    /\ llm_pc = "idle"
    /\ llm_result = NoResult

OrchIdle ==
    /\ an = IdleAn
    /\ ch = IdleCh
    /\ llm_calls = <<>>
    /\ ops = <<>>

AppIdle ==
    /\ RouteIdle
    /\ LlmIdle
    /\ OrchIdle

Init ==
    /\ full_text \in Documents
    /\ doc_id = 0
    /\ sections = <<>>
    /\ chunks = <<>>
    /\ pc = "input"
    /\ ChunkerIdle
    /\ AppIdle
    /\ IndexIdle
    /\ ServiceIdle
    /\ CacheIdle

\* A call of split_into_sections(full_text).
SplitIntoSections ==
    /\ pc = "input"
    /\ sections' = split_into_sections(full_text)
    /\ pc' = "sectioned"
    /\ UNCHANGED <<full_text, doc_id, chunks>>
    /\ UNCHANGED <<chunker_vars, index_vars, service_vars, cache_vars, ge, app_vars>>

\* A call of prepare_chunks_from_text(full_text, doc_id).
PrepareChunksFromText ==
    /\ pc = "input"
    /\ \E d \in DocIds :
       \E uuids \in [1..UuidDraws(split_into_sections(full_text), 1) -> Uuids] :
          /\ doc_id' = d
          /\ chunks' = prepare_chunks_from_text(full_text, d, uuids)
    /\ pc' = "chunked"
    /\ UNCHANGED <<full_text, sections>>
    /\ UNCHANGED <<chunker_vars, index_vars, service_vars, cache_vars, ge, app_vars>>

Next ==
    \/ SplitIntoSections
    \/ PrepareChunksFromText

Spec == Init /\ [][Next]_vars

\* chunk_text(ct_arg, max_chars), one loop iteration per step.
ChunkerInit ==
    /\ ct_arg \in CtTexts
    /\ ct_text = ct_arg
    /\ max_chars \in CtMaxChars
    /\ start = 0
    /\ ct_chunks = <<>>
    /\ ct_pc = "call"
    /\ PipeIdle
    /\ AppIdle
    /\ IndexIdle
    /\ ServiceIdle
    /\ CacheIdle

\* Lines 85-91: strip, the early return for an empty text, the loop set-up.
ChunkTextEnter ==
    /\ ct_pc = "call"
    /\ ct_text' = strip(ct_arg)
    /\ ct_chunks' = <<>>
    /\ start' = 0
    /\ ct_pc' = IF strip(ct_arg) = <<>> THEN "done" ELSE "loop"
    /\ UNCHANGED <<ct_arg, max_chars>>
    /\ UNCHANGED <<pipe_vars, index_vars, service_vars, cache_vars, ge, app_vars>>

\* Lines 93-97: one iteration of the while loop (followed up to WindowCap
\* windows).
ChunkTextIterate ==
    /\ ct_pc = "loop"
    /\ start < Len(ct_text)
    /\ Len(ct_chunks) < WindowCap
    /\ ct_chunks' = Append(ct_chunks, ChunkAt(ct_text, start, max_chars))
    /\ start' = ChunkEnd(ct_text, start, max_chars)
    /\ UNCHANGED <<ct_arg, ct_text, max_chars, ct_pc>>
    /\ UNCHANGED <<pipe_vars, index_vars, service_vars, cache_vars, ge, app_vars>>

\* Lines 93 and 99: the loop condition fails and the list is returned.
ChunkTextReturn ==
    /\ ct_pc = "loop"
    /\ ~(start < Len(ct_text))
    /\ ct_pc' = "done"
    /\ UNCHANGED <<ct_arg, ct_text, max_chars, start, ct_chunks>>
    /\ UNCHANGED <<pipe_vars, index_vars, service_vars, cache_vars, ge, app_vars>>

ChunkerNext ==
    \/ ChunkTextEnter
    \/ ChunkTextIterate
    \/ ChunkTextReturn

\* A running call keeps executing: the interpreter always takes the next step.
ChunkerSpec == ChunkerInit /\ [][ChunkerNext]_vars /\ WF_vars(ChunkerNext)

-----------------------------------------------------------------------------
(* The index and the retriever: a document is chunked, the chunks are      *)
(* indexed with one embedder, and the index is queried any number of times *)
(* with that embedder.                                                     *)

IndexInit ==
    /\ full_text \in IndexDocs
    /\ doc_id = 0
    /\ sections = <<>>
    /\ chunks = <<>>
    /\ pc = "input"
    /\ embedder \in Embedders
    /\ index = NoIndex
    /\ id_map = <<>>
    /\ query = <<>>
    /\ top_k = TOP_K
    /\ retrieved = <<>>
    /\ error = "none"
    /\ ChunkerIdle
    /\ AppIdle
    /\ ServiceIdle
    /\ CacheIdle

\* index, id_map, embeddings = build_index_from_chunks(chunks, embedder)
BuildIndex ==
    /\ pc = "chunked"
    /\ LET b == build_index_from_chunks(chunks, embedder)
       IN  /\ index' = b.index
           /\ id_map' = b.id_map
           /\ error' = b.error
    /\ pc' = "indexed"
    /\ UNCHANGED <<full_text, doc_id, sections, chunks>>
    /\ UNCHANGED <<embedder, query, top_k, retrieved>>
    /\ UNCHANGED <<chunker_vars, service_vars, cache_vars, ge, app_vars>>

\* The queries put to the index: the document, the text of one of its
\* chunks, a free-text question.
Queries == {full_text, Question} \cup {chunks[i].text : i \in 1..Len(chunks)}

\* retrieved = retrieve_from_index(query, embedder, index, id_map, top_k)
Retrieve ==
    /\ pc \in {"indexed", "retrieved"}
    /\ error = "none"
    /\ \E q \in Queries : \E k \in TopKs :
       \E labels \in SearchLabels(index, QueryRow(q, embedder), k) :
          LET r == retrieve_from_index(q, embedder, index, id_map, k, labels, chunks)
          IN  /\ query' = q
              /\ top_k' = k
              /\ retrieved' = r.results
              /\ chunks' = r.heap
              /\ error' = r.error
    /\ pc' = "retrieved"
    /\ UNCHANGED <<full_text, doc_id, sections>>
    /\ UNCHANGED <<embedder, index, id_map>>
    /\ UNCHANGED <<chunker_vars, service_vars, cache_vars, ge, app_vars>>

IndexNext ==
    \/ PrepareChunksFromText
    \/ BuildIndex
    \/ Retrieve

IndexSpec == IndexInit /\ [][IndexNext]_vars

-----------------------------------------------------------------------------
(* The services: analyze_clinical_note and chat_with_note, each invocation *)
(* stepped call by call, the invocations of two requests interleaved.      *)
(* get_embedder runs as one step here.                                     *)

ServiceInit ==
    /\ ServiceIdle
    /\ embedder_cache = EmptyCache
    /\ loads = NoLoads
    /\ ge = [t \in Threads |-> IdleThread]
    /\ PipeIdle
    /\ ChunkerIdle
    /\ AppIdle
    /\ IndexIdle

\* analyze_clinical_note(full_text, llm_mode, top_k, use_small_embedder) is
\* called.
CallAnalyze(p) ==
    /\ calls[p].pc \in {"idle", "done"}
    /\ started < MaxCalls
    /\ \E doc \in SvcDocs : \E us \in BOOLEAN : \E k \in SvcTopKs :
          calls' = [calls EXCEPT ![p] =
                       [IdleCall EXCEPT !.kind = "analyze", !.pc = "start",
                                        !.full_text = doc, !.use_small = us,
                                        !.top_k = k]]
    /\ started' = started + 1
    /\ UNCHANGED <<indexes, cache_vars, ge>>
    /\ UNCHANGED <<pipe_vars, chunker_vars, index_vars, app_vars>>

\* The all_chunks a chat request may carry: none, or those an analysis
\* returned.
Contexts ==
    {<<>>} \cup {calls[q].chunks :
                    q \in {c \in Callers : /\ calls[c].kind = "analyze"
                                           /\ calls[c].pc = "done"
                                           /\ calls[c].error = "none"}}

\* chat_with_note(question, analysis_context, chat_history, llm_mode, top_k)
\* is called; line 42 reads all_chunks.
CallChat(p) ==
    /\ calls[p].pc \in {"idle", "done"}
    /\ started < MaxCalls
    /\ \E ctx \in Contexts :
          calls' = [calls EXCEPT ![p] =
                       [IdleCall EXCEPT !.kind = "chat", !.pc = "start",
                                        !.question = Question, !.chunks = ctx,
                                        !.top_k = CHAT_TOP_K]]
    /\ started' = started + 1
    /\ UNCHANGED <<indexes, cache_vars, ge>>
    /\ UNCHANGED <<pipe_vars, chunker_vars, index_vars, app_vars>>

\* chat_with_note, lines 46-51: without chunks it answers at once.
ChatNoContext(p) ==
    /\ calls[p].kind = "chat"
    /\ calls[p].pc = "start"
    /\ calls[p].chunks = <<>>
    /\ calls' = [calls EXCEPT ![p].pc = "done"]
    /\ UNCHANGED <<indexes, started, cache_vars, ge>>
    /\ UNCHANGED <<pipe_vars, chunker_vars, index_vars, app_vars>>

\* embedder = get_embedder(use_small=...): line 648 of analyze_clinical_note,
\* line 54 of chat_with_note.
SvcGetEmbedder(p) ==
    /\ calls[p].pc = "start"
    /\ calls[p].kind = "chat" => calls[p].chunks # <<>>
    /\ LET g == get_embedder(embedder_cache, loads, UseSmallArg(calls[p]))
       IN  /\ embedder_cache' = g.cache
           /\ loads' = g.loads
           /\ calls' = [calls EXCEPT ![p].embedder = g.result,
                                     ![p].pc = IF calls[p].kind = "chat"
                                               THEN "chunked" ELSE "embedder"]
    /\ UNCHANGED <<indexes, started, ge>>
    /\ UNCHANGED <<pipe_vars, chunker_vars, index_vars, app_vars>>

\* chunks = prepare_chunks_from_text(full_text): line 651.
SvcPrepare(p) ==
    /\ calls[p].kind = "analyze"
    /\ calls[p].pc = "embedder"
    /\ \E uuids \in [1..UuidDraws(split_into_sections(calls[p].full_text), 1) -> Uuids] :
          calls' = [calls EXCEPT
                       ![p].chunks = prepare_chunks_from_text(calls[p].full_text, 0, uuids),
                       ![p].pc = "chunked"]
    /\ UNCHANGED <<indexes, started, cache_vars, ge>>
    /\ UNCHANGED <<pipe_vars, chunker_vars, index_vars, app_vars>>

\* index, id_map, _ = build_index_from_chunks(chunks, embedder): line 652 of
\* analyze_clinical_note, line 55 of chat_with_note. id_map refers to the
\* dicts of the list it was built from.
SvcBuild(p) ==
    /\ calls[p].pc = "chunked"
    /\ LET b == build_index_from_chunks(calls[p].chunks, calls[p].embedder)
       IN  /\ indexes' = [indexes EXCEPT ![IndexSlot(p)] =
                             [index |-> b.index, id_map |-> b.id_map,
                              chunks |-> calls[p].chunks]]
           /\ calls' = [calls EXCEPT ![p].built_with = calls[p].embedder,
                                     ![p].error = b.error,
                                     ![p].pc = IF b.error = "none"
                                               THEN "indexed" ELSE "done"]
    /\ UNCHANGED <<started, cache_vars, ge>>
    /\ UNCHANGED <<pipe_vars, chunker_vars, index_vars, app_vars>>

\* retrieved = retrieve_from_index(query, embedder, index, id_map, top_k):
\* line 655 of analyze_clinical_note, lines 58-64 of chat_with_note.
SvcRetrieve(p) ==
    /\ calls[p].pc = "indexed"
    /\ LET loc == indexes[IndexSlot(p)]
           emb == RetrieveEmbedder(calls[p])
           q   == QueryArg(calls[p])
       IN  \E labels \in IF QueryRow(q, emb).d = loc.index.d
                         THEN SearchLabels(loc.index, QueryRow(q, emb), calls[p].top_k)
                         ELSE {<<>>} :
              LET r == retrieve_from_index(q, emb, loc.index, loc.id_map,
                                           calls[p].top_k, labels, loc.chunks)
              IN  /\ calls' = [calls EXCEPT ![p].retrieved = r.results,
                                            ![p].queried_with = emb,
                                            ![p].error = r.error,
                                            ![p].pc = IF r.error = "none"
                                                      THEN "retrieved" ELSE "done"]
                  /\ indexes' = [indexes EXCEPT ![IndexSlot(p)].chunks = r.heap]
    /\ UNCHANGED <<started, cache_vars, ge>>
    /\ UNCHANGED <<pipe_vars, chunker_vars, index_vars, app_vars>>

\* The rest of the invocation, up to its return.
SvcReturn(p) ==
    /\ calls[p].pc = "retrieved"
    /\ calls' = [calls EXCEPT ![p].pc = "done"]
    /\ UNCHANGED <<indexes, started, cache_vars, ge>>
    /\ UNCHANGED <<pipe_vars, chunker_vars, index_vars, app_vars>>

ServiceNext ==
    \E p \in Callers :
        \/ CallAnalyze(p)
        \/ CallChat(p)
        \/ ChatNoContext(p)
        \/ SvcGetEmbedder(p)
        \/ SvcPrepare(p)
        \/ SvcBuild(p)
        \/ SvcRetrieve(p)
        \/ SvcReturn(p)

ServiceSpec == ServiceInit /\ [][ServiceNext]_vars

-----------------------------------------------------------------------------
(* get_embedder, statement by statement, entered by several threads.       *)

ThreadsInit ==
    /\ embedder_cache = EmptyCache
    /\ loads = NoLoads
    /\ ge = [t \in Threads |-> IdleThread]
    /\ ServiceIdle
    /\ PipeIdle
    /\ ChunkerIdle
    /\ AppIdle
    /\ IndexIdle

\* Line 51: the call and its key.
GeCall(t) ==
    /\ ge[t].pc = "idle"
    /\ \E us \in BOOLEAN :
          ge' = [ge EXCEPT ![t].use_small = us, ![t].pc = "check"]
    /\ UNCHANGED <<cache_vars, service_vars>>
    /\ UNCHANGED <<pipe_vars, chunker_vars, index_vars, app_vars>>

\* Line 53: if key not in _embedder_cache.
GeCheck(t) ==
    /\ ge[t].pc = "check"
    /\ ge' = [ge EXCEPT ![t].pc =
                 IF CacheMiss(embedder_cache, CacheKey(ge[t].use_small))
                 THEN "load" ELSE "return"]
    /\ UNCHANGED <<cache_vars, service_vars>>
    /\ UNCHANGED <<pipe_vars, chunker_vars, index_vars, app_vars>>

\* Lines 54-55, right-hand side: SentenceTransformer(model_name).
GeLoad(t) ==
    /\ ge[t].pc = "load"
    /\ ge' = [ge EXCEPT ![t].model = NewModel(CacheKey(ge[t].use_small), loads),
                        ![t].pc = "store"]
    /\ loads' = [loads EXCEPT ![CacheKey(ge[t].use_small)] = @ + 1]
    /\ UNCHANGED <<embedder_cache, service_vars>>
    /\ UNCHANGED <<pipe_vars, chunker_vars, index_vars, app_vars>>

\* Line 55, the assignment: _embedder_cache[key] = ...
GeStore(t) ==
    /\ ge[t].pc = "store"
    /\ embedder_cache' = CacheStore(embedder_cache, CacheKey(ge[t].use_small), ge[t].model)
    /\ ge' = [ge EXCEPT ![t].pc = "return"]
    /\ UNCHANGED <<loads, service_vars>>
    /\ UNCHANGED <<pipe_vars, chunker_vars, index_vars, app_vars>>

\* Line 57: return _embedder_cache[key].
GeReturn(t) ==
    /\ ge[t].pc = "return"
    /\ ge' = [ge EXCEPT ![t].result = embedder_cache[CacheKey(ge[t].use_small)],
                        ![t].pc = "done"]
    /\ UNCHANGED <<cache_vars, service_vars>>
    /\ UNCHANGED <<pipe_vars, chunker_vars, index_vars, app_vars>>

ThreadsNext ==
    \E t \in Threads :
        \/ GeCall(t)
        \/ GeCheck(t)
        \/ GeLoad(t)
        \/ GeStore(t)
        \/ GeReturn(t)

ThreadsSpec == ThreadsInit /\ [][ThreadsNext]_vars

-----------------------------------------------------------------------------
(* Claims about the sectionizer                                            *)

HeaderNames == {SECTION_HEADERS[k] : k \in 1..Len(SECTION_HEADERS)}

\* C1: every section returned by split_into_sections is labelled UNLABELED or
\* exactly one of the 14 header names, with no trailing colon or other extra
\* character, also when the header is written with a trailing colon.
C1_LabelsAreHeaderNames ==
    pc = "sectioned" =>
        \A i \in 1..Len(sections) :
            sections[i].section \in HeaderNames \cup {UNLABELED}

\* The note of the end-to-end scenario: its two sections on two lines.
ScenarioNote == NoteHPI \o <<"\n">> \o NoteLab

\* C2: for the scenario note prepare_chunks_from_text returns exactly two
\* chunks, in order, with section fields HISTORY OF PRESENT ILLNESS and
\* LABORATORY, the two bodies as texts and chunk_num 0 and 1.
C2_ScenarioChunks ==
    (pc = "chunked" /\ full_text = ScenarioNote) =>
        /\ Len(chunks) = 2
        /\ chunks[1].section = SECTION_HEADERS[1]
        /\ chunks[2].section = SECTION_HEADERS[9]
        /\ chunks[1].text = <<"f","e","v","e","r"," ","a","n","d"," ","h","e","a","d","a","c","h","e",".">>
        /\ chunks[2].text = <<"W","B","C"," ","e","l","e","v","a","t","e","d",".">>
        /\ chunks[1].chunk_num = 0
        /\ chunks[2].chunk_num = 1

\* No header pattern matches anywhere in text.
NoHeaderIn(text) ==
    \A p \in 1..Len(text) :
        upper_char(text[p]) \in HeaderInitials =>
            \A k \in 1..Len(SECTION_HEADERS) : ~LiteralAt(text, p, SECTION_HEADERS[k])

\* C3: for a text in which no header pattern matches (the empty and the
\* whitespace-only text included) split_into_sections returns exactly one
\* section, labelled UNLABELED, whose body is the trimmed input.
C3_NoHeaderOneUnlabeled ==
    (pc = "sectioned" /\ NoHeaderIn(full_text)) =>
        sections = <<[section |-> UNLABELED, body |-> strip(full_text)]>>

\* C3 witness: a header-free text with text left after trimming whitespace off.
C3_Witness ==
    /\ pc = "sectioned"
    /\ NoHeaderIn(full_text)
    /\ strip(full_text) # <<>>
    /\ strip(full_text) # full_text

\* C4: for a text with m >= 1 header matches split_into_sections returns one
\* section per match, in document order, preceded by one UNLABELED section
\* exactly if the text before the first match is not blank; the body of the
\* k-th header section is the trimmed text between the end of match k and the
\* start of match k+1 (or the end of the text).
C4_SectionsFollowMatches ==
    LET ms   == header_matches(full_text)
        m    == Len(ms)
        lead == strip(SubSeq(full_text, 1, ms[1].first - 1))
        off  == IF lead # <<>> THEN 1 ELSE 0
        Until(k) == IF k < m THEN ms[k + 1].first - 1 ELSE Len(full_text)
    IN  (pc = "sectioned" /\ m >= 1) =>
            /\ Len(sections) = m + off
            /\ off = 1 => sections[1] = [section |-> UNLABELED, body |-> lead]
            /\ \A k \in 1..m :
                  sections[k + off].body = strip(SubSeq(full_text, ms[k].next, Until(k)))

\* C4 witness: leading text, then the same header twice, the first occurrence
\* directly followed by the second.
C4_Witness ==
    /\ pc = "sectioned"
    /\ Len(header_matches(full_text)) = 2
    /\ Len(sections) = 3
    /\ sections[1].section = UNLABELED
    /\ sections[2].section = sections[3].section
    /\ sections[2].body = <<>>

-----------------------------------------------------------------------------
(* Claims about the chunker                                                *)

\* The i-th (0-based) slice [i*mc, (i+1)*mc) of t.
SliceOf(t, mc, i) == SubSeq(t, i * mc + 1, Min((i + 1) * mc, Len(t)))

RECURSIVE JoinSlices(_, _, _, _)
JoinSlices(t, mc, i, cnt) ==
    IF i >= cnt THEN <<>> ELSE SliceOf(t, mc, i) \o JoinSlices(t, mc, i + 1, cnt)

\* C5: for a non-empty text and max_chars >= 1 chunk_text returns the trimmed
\* forms of the consecutive slices [i*max_chars, (i+1)*max_chars) of the
\* trimmed text, in order; every window has at most max_chars characters, only
\* the last slice may be shorter, and the untrimmed slices concatenate to the
\* trimmed text.
C5_WindowsAreSlices ==
    (ct_pc = "done" /\ max_chars >= 1 /\ ct_arg # <<>>) =>
        LET t   == strip(ct_arg)
            cnt == Len(ct_chunks)
        IN  /\ \A i \in 0..(cnt - 1) :
                  /\ ct_chunks[i + 1] = strip(SliceOf(t, max_chars, i))
                  /\ Len(ct_chunks[i + 1]) <= max_chars
                  /\ i < cnt - 1 => Len(SliceOf(t, max_chars, i)) = max_chars
                  /\ Len(SliceOf(t, max_chars, i)) >= 1
            /\ JoinSlices(t, max_chars, 0, cnt) = t

\* C5 witness: several windows, one of which lost whitespace at a boundary.
C5_Witness ==
    /\ ct_pc = "done"
    /\ max_chars >= 2
    /\ Len(ct_chunks) >= 2
    /\ \E i \in 1..(Len(ct_chunks) - 1) : Len(ct_chunks[i]) < max_chars

-----------------------------------------------------------------------------
(* Claims about the chunk assembler                                        *)

\* The windows of sections k, k+1, ... of a document, in document order, each
\* with the label of its section.
RECURSIVE WindowsFrom(_, _)
WindowsFrom(secs, k) ==
    IF k > Len(secs) THEN <<>>
    ELSE LET w == chunk_text(secs[k].body, MaxChars)
         IN  [i \in 1..Len(w) |-> [section |-> secs[k].section, text |-> w[i]]]
                 \o WindowsFrom(secs, k + 1)

DocWindows(text) == WindowsFrom(split_into_sections(text), 1)

\* C7: prepare_chunks_from_text returns at least one chunk and the chunk at
\* list position i (0-based) has chunk_num = i: the numbering is dense, is not
\* reset between sections, and the chunks of an earlier section come before
\* those of a later section.
C7_DenseChunkNums ==
    pc = "chunked" =>
        /\ Len(chunks) >= 1
        /\ \A i \in 1..Len(chunks) : chunks[i].chunk_num = i - 1
        /\ LET w == DocWindows(full_text)
           IN  w # <<>> =>
                  [i \in 1..Len(chunks) |->
                      [section |-> chunks[i].section, text |-> chunks[i].text]] = w

\* C7 witness: a section cut into two windows, followed by another section.
C7_Witness ==
    /\ pc = "chunked"
    /\ Len(chunks) = 3
    /\ chunks[1].section = chunks[2].section
    /\ chunks[2].section # chunks[3].section
    /\ chunks[3].chunk_num = 2

\* C8: within the result of one prepare_chunks_from_text call all chunk_id
\* values are pairwise distinct, whatever the random suffixes are.
C8_ChunkIdsDistinct ==
    pc = "chunked" =>
        \A i, j \in 1..Len(chunks) :
            i # j => chunks[i].chunk_id # chunks[j].chunk_id

\* The last n characters of s.
Tail_n(s, n) == SubSeq(s, Len(s) - n + 1, Len(s))

\* C8 witness: two chunks with the same truncated label that drew the same
\* 8-character suffix.
C8_Witness ==
    /\ pc = "chunked"
    /\ \E i, j \in 1..Len(chunks) :
          /\ i # j
          /\ PySlice(chunks[i].section, 0, HeaderChars) = PySlice(chunks[j].section, 0, HeaderChars)
          /\ Tail_n(chunks[i].chunk_id, SuffixChars) = Tail_n(chunks[j].chunk_id, SuffixChars)

HexChars == {"0","1","2","3","4","5","6","7","8","9","a","b","c","d","e","f"}

\* <doc_id>_<section[:20]>_<chunk_num>_ as the fields of chunk c give it
IdStem(c) ==
    str_int(c.doc_id) \o <<"_">> \o PySlice(c.section, 0, HeaderChars) \o <<"_">>
        \o str_int(c.chunk_num) \o <<"_">>

\* chunk c's id is <doc_id>_<section[:20]>_<chunk_num>_<8 hex characters>
HasSuffixedId(c) ==
    /\ Len(c.chunk_id) = Len(IdStem(c)) + SuffixChars
    /\ SubSeq(c.chunk_id, 1, Len(IdStem(c))) = IdStem(c)
    /\ \A i \in (Len(IdStem(c)) + 1)..Len(c.chunk_id) : c.chunk_id[i] \in HexChars

C10_FallbackChunk ==
    (pc = "chunked" /\ DocWindows(full_text) = <<>>) =>
        /\ Len(chunks) = 1
        /\ chunks[1].chunk_num = 0
        /\ chunks[1].section = UNLABELED
        /\ chunks[1].doc_id = doc_id
        /\ chunks[1].text = full_text

\* C10 witness: a whitespace-only document, kept verbatim.
C10_Witness ==
    /\ pc = "chunked"
    /\ doc_id # 0
    /\ full_text # <<>>
    /\ strip(full_text) = <<>>
    /\ chunks[1].text = full_text

-----------------------------------------------------------------------------
(* Claims about the index and the retriever (IndexSpec)                    *)

Indexed == pc \in {"indexed", "retrieved"}

FiveFields == {"chunk_id", "text", "section", "doc_id", "chunk_num"}

\* a retrieval result without its score
Unscored(r) ==
    [chunk_id  |-> r.chunk_id,
     text      |-> r.text,
     section   |-> r.section,
     doc_id    |-> r.doc_id,
     chunk_num |-> r.chunk_num]

\* C11: once build_index_from_chunks has run on N >= 1 chunks, and after any
\* number of retrievals, the index holds exactly N rows, id_map has exactly
\* the keys 0..N-1, id_map[i] refers to chunks[i], and row i is the
\* normalized embedding of the text of chunks[i].
C11_IndexMirrorsChunks ==
    Indexed =>
        /\ Len(chunks) >= 1
        /\ ntotal(index) = Len(chunks)
        /\ DOMAIN id_map = 0..(Len(chunks) - 1)
        /\ \A i \in 0..(Len(chunks) - 1) :
              /\ id_map[i] = i + 1
              /\ index.xb[i + 1] =
                     normalize_L2(encode(embedder, <<chunks[i + 1].text>>)[1])

\* An index of two chunks has answered a query.
C11_Witness ==
    /\ pc = "retrieved"
    /\ ntotal(index) = 2
    /\ chunks[1].text # chunks[2].text
    /\ Len(retrieved) = 2

\* C12: a retrieval with top_k = k over an index of N chunks returns at most
\* min(k, N) results, in order of non-increasing score, each of them one of
\* the indexed chunks; a label -1 of the search gives no result at all.
C12_RetrievalBoundedOrdered ==
    pc = "retrieved" =>
        /\ Len(retrieved) <= Min(top_k, Len(chunks))
        /\ \A j \in 1..(Len(retrieved) - 1) :
              ScoreLE(retrieved[j + 1].score, retrieved[j].score)
        /\ \A j \in 1..Len(retrieved) :
              /\ \E i \in 1..Len(chunks) : Unscored(retrieved[j]) = chunks[i]
              /\ retrieved[j].score # NegInf

\* Six hits were asked of a two-chunk index, and the two results have
\* different scores.
C12_Witness ==
    /\ pc = "retrieved"
    /\ top_k = TOP_K
    /\ Len(chunks) = 2
    /\ Len(retrieved) = 2
    /\ ~ScoreLE(retrieved[1].score, retrieved[2].score)

\* C13: a retrieval whose top_k exceeds the number of indexed chunks is
\* rejected with an error and returns no result list.
C13_OversizedTopKRejected ==
    (pc = "retrieved" /\ top_k > Len(chunks)) =>
        (error # "none" /\ retrieved = <<>>)

\* C14: after any sequence of retrievals on an index every chunk of id_map
\* and of the chunk list is what it was: it keeps exactly its five fields and
\* never gets a score; each result is a copy of an indexed chunk with the
\* score added.
C14_ChunksUntouched ==
    /\ [](Indexed =>
            /\ \A i \in DOMAIN id_map : DOMAIN chunks[id_map[i]] = FiveFields
            /\ \A j \in 1..Len(retrieved) :
                  /\ DOMAIN retrieved[j] = FiveFields \cup {"score"}
                  /\ \E i \in DOMAIN id_map :
                        Unscored(retrieved[j]) = chunks[id_map[i]])
    /\ [][Indexed => (chunks' = chunks /\ id_map' = id_map)]_vars

\* Both chunks of an index have been returned, scored, for the text of the
\* first one.
C14_Witness ==
    /\ pc = "retrieved"
    /\ Len(chunks) = 2
    /\ Len(retrieved) = 2
    /\ query = chunks[1].text
    /\ query # chunks[2].text

\* C15 as stated: a retrieval whose query is the text of an indexed chunk c
\* returns c itself first, with score 1.0, also when another chunk has the
\* same text.
C15_SelfRetrievalTop1 ==
    pc = "retrieved" =>
        \A i \in 1..Len(chunks) :
            chunks[i].text = query =>
                /\ retrieved # <<>>
                /\ retrieved[1].chunk_id = chunks[i].chunk_id
                /\ IsOne(retrieved[1].score)

\* rows i and j of the index point the same way
Tied(i, j) == IsOne(inner_product(index.xb[i], index.xb[j]))

\* C15, amended: a retrieval whose query is the text of an indexed chunk c
\* returns first, with score 1.0, a chunk whose embedding equals that of c;
\* it is c itself when no other chunk of the index has the embedding of c.
C15_SelfRetrievalUpToTies ==
    pc = "retrieved" =>
        \A i \in 1..Len(chunks) :
            chunks[i].text = query =>
                /\ retrieved # <<>>
                /\ IsOne(retrieved[1].score)
                /\ \E j \in 1..Len(chunks) :
                      /\ Tied(i, j)
                      /\ retrieved[1].chunk_id = chunks[j].chunk_id
                /\ (\A j \in 1..Len(chunks) : j # i => ~Tied(i, j)) =>
                      retrieved[1].chunk_id = chunks[i].chunk_id

\* The second chunk of an index, which no other chunk is tied with, comes
\* first for its own text.
C15_Witness ==
    /\ pc = "retrieved"
    /\ Len(chunks) = 2
    /\ query = chunks[2].text
    /\ ~Tied(1, 2)
    /\ retrieved # <<>>
    /\ retrieved[1].chunk_id = chunks[2].chunk_id

\* C16: on the index built from the fallback chunk of the empty document,
\* every retrieval, whatever the query and top_k >= 1, returns exactly one
\* result: the fallback chunk, section UNLABELED, empty text.
C16_FallbackIndexAnswersOne ==
    (pc = "retrieved" /\ full_text = <<>>) =>
        /\ Len(retrieved) = 1
        /\ retrieved[1].section = UNLABELED
        /\ retrieved[1].text = <<>>
        /\ Unscored(retrieved[1]) = FallbackChunk(<<>>, doc_id)

\* The index of the empty document has been asked for six hits about a
\* question.
C16_Witness ==
    /\ pc = "retrieved"
    /\ full_text = <<>>
    /\ query = Question
    /\ top_k = TOP_K
    /\ Len(retrieved) = 1

-----------------------------------------------------------------------------
(* Claims about the embedder cache and the services                        *)

\* the invocation of caller p has its embedder
HasEmbedder(p) ==
    calls[p].pc \in {"embedder", "chunked", "indexed", "retrieved"}
        \/ (calls[p].pc = "done" /\ calls[p].built_with # NoEmbedder)

\* C17: over any sequence of get_embedder calls the model of each variant is
\* constructed at most once, every call returns the instance the cache holds
\* for its variant, the cache has no key but "small" and "large", and an
\* entry, once stored, is never removed or replaced.
C17_LoadedOnceAndKept ==
    /\ [](/\ \A k \in ModelKeys : loads[k] <= 1
          /\ DOMAIN embedder_cache \subseteq {"small", "large"}
          /\ \A k \in DOMAIN embedder_cache : embedder_cache[k].model = k
          /\ \A p \in Callers :
                HasEmbedder(p) =>
                    /\ CacheKey(UseSmallArg(calls[p])) \in DOMAIN embedder_cache
                    /\ calls[p].embedder =
                           embedder_cache[CacheKey(UseSmallArg(calls[p]))])
    /\ [][\A k \in DOMAIN embedder_cache :
              /\ k \in DOMAIN embedder_cache'
              /\ embedder_cache'[k] = embedder_cache[k]]_vars

\* Two invocations have asked for the small model and hold the one instance
\* of it.
C17_Witness ==
    /\ HasEmbedder(1)
    /\ HasEmbedder(2)
    /\ calls[1].use_small
    /\ calls[1].embedder = calls[2].embedder
    /\ loads["small"] = 1

\* C18: when several threads run get_embedder for the same variant with
\* their steps interleaved, the model is constructed at most once and all of
\* them return the same instance.
C18_ConcurrentLoadOnce ==
    /\ \A k \in ModelKeys : loads[k] <= 1
    /\ \A t, u \in Threads :
          (/\ ge[t].pc = "done"
           /\ ge[u].pc = "done"
           /\ ge[t].use_small = ge[u].use_small) => ge[t].result = ge[u].result

\* the invocation of caller p has retrieved
HasRetrieved(p) == calls[p].queried_with # NoEmbedder

\* C19: every invocation retrieves from the index and id_map it built itself
\* from its own chunks: while it holds an index, that index is the one built
\* from its chunks, and each of its results is one of its chunks; of two
\* analyses of different documents neither returns a chunk of the other.
C19_OwnIndexOnly ==
    \A p \in Callers :
        /\ calls[p].pc = "indexed" =>
              LET b == build_index_from_chunks(calls[p].chunks, calls[p].embedder)
              IN  indexes[IndexSlot(p)] =
                      [index |-> b.index, id_map |-> b.id_map,
                       chunks |-> calls[p].chunks]
        /\ HasRetrieved(p) =>
              /\ \A j \in 1..Len(calls[p].retrieved) :
                    \E i \in 1..Len(calls[p].chunks) :
                        Unscored(calls[p].retrieved[j]) = calls[p].chunks[i]
              /\ \A q \in Callers :
                    (/\ calls[q].kind = "analyze"
                     /\ calls[p].kind = "analyze"
                     /\ calls[q].full_text # calls[p].full_text) =>
                        \A j \in 1..Len(calls[p].retrieved) :
                            \A i \in 1..Len(calls[q].chunks) :
                                Unscored(calls[p].retrieved[j]) # calls[q].chunks[i]

\* Two analyses of different documents are in flight at once and both have
\* retrieved.
C19_Witness ==
    /\ calls[1].kind = "analyze"
    /\ calls[2].kind = "analyze"
    /\ calls[1].pc = "retrieved"
    /\ calls[2].pc = "retrieved"
    /\ calls[1].full_text # calls[2].full_text
    /\ calls[1].retrieved # <<>>
    /\ calls[2].retrieved # <<>>

\* C20: every retrieval embeds its query with the very embedder the index it
\* searches was built with, so the query row has the width of the index and
\* the search does not fail: in analyze_clinical_note that is the embedder of
\* the requested variant, in chat_with_note the large one.
C20_SameEmbedderBuildsAndQueries ==
    \A p \in Callers :
        HasRetrieved(p) =>
            /\ calls[p].queried_with = calls[p].built_with
            /\ calls[p].built_with.model = CacheKey(UseSmallArg(calls[p]))
            /\ calls[p].error = "none"
            /\ QueryRow(QueryArg(calls[p]), calls[p].queried_with).d =
                   indexes[IndexSlot(p)].index.d

\* A chat has retrieved, with the large model, from the chunks of an
\* analysis that ran with the small one.
C20_Witness ==
    \E p, q \in Callers :
        /\ calls[q].kind = "analyze"
        /\ calls[q].pc = "done"
        /\ calls[q].use_small
        /\ calls[q].built_with.model = "small"
        /\ calls[p].kind = "chat"
        /\ HasRetrieved(p)
        /\ calls[p].chunks = calls[q].chunks
        /\ calls[p].built_with.model = "large"
        /\ calls[p].retrieved # <<>>

-----------------------------------------------------------------------------
(* The route handlers: routes/analysis.py, routes/chat.py and              *)
(* routes/general_chat.py. Each is one try block around the validation of  *)
(* the request and the call of the service, followed by except clauses.    *)

Routes == {"analyze", "chat", "general_chat"}

\* Request texts: empty, whitespace only, and with content.
RouteTexts == {<<>>, <<" ">>, <<"\n", " ">>, <<" ", "x">>, Question}

\* `not request.text or request.text.strip() == ""`.
Blank(text) == text = <<>> \/ strip(text) = <<>>

HTTPException(code, msg) == [type |-> "HTTPException", status_code |-> code, detail |-> msg]

\* An exception of another class, raised inside the service.
ServiceFailure == [type |-> "Exception", status_code |-> 0, detail |-> "service failure"]

\* isinstance(exc, cls): HTTPException derives from Exception.
IsInstance(exc, cls) == cls = "Exception" \/ exc.type = cls

\* The except clauses of each handler, in the order of the code.
ExceptClauses(r) ==
    IF r = "analyze"
    THEN <<[catches |-> "Exception", detail |-> "Analysis failed"]>>
    ELSE <<[catches |-> "HTTPException", detail |-> "re-raise"],
           [catches |-> "Exception", detail |-> "Chat failed"]>>

\* The exception that leaves the handler when exc is raised inside its try
\* block: the first clause that matches either re-raises it or raises
\* HTTPException(500) in its place.
Handle(r, exc) ==
    LET cl == ExceptClauses(r)
        k  == MinOf({i \in 1..Len(cl) : IsInstance(exc, cl[i].catches)})
    IN  IF cl[k].detail = "re-raise" THEN exc ELSE HTTPException(500, cl[k].detail)

\* The check of the request at the top of the try block: the exception it
\* raises, or NoException.
Validation(r, text, has_context) ==
    IF r = "analyze"
    THEN IF Blank(text) THEN HTTPException(400, "Clinical note text is required")
         ELSE NoException
    ELSE IF Blank(text) THEN HTTPException(400, "Question is required")
    ELSE IF r = "chat" /\ ~has_context
         THEN HTTPException(400, "Analysis context is required")
    ELSE NoException

RouteInit ==
    /\ route \in Routes
    /\ req_text \in RouteTexts
    /\ req_context \in BOOLEAN
    /\ route_pc = "try"
    /\ route_exc = NoException
    /\ response = NoResponse
    /\ service_calls = 0
    /\ LlmIdle
    /\ OrchIdle
    /\ PipeIdle
    /\ ChunkerIdle
    /\ IndexIdle
    /\ ServiceIdle
    /\ CacheIdle

rest_of_route == <<pipe_vars, chunker_vars, index_vars, service_vars, cache_vars, ge,
                   llm_vars, orch_vars>>

\* The validation at the top of the try block.
RouteValidate ==
    /\ route_pc = "try"
    /\ route_exc' = Validation(route, req_text, req_context)
    /\ route_pc' = IF route_exc' = NoException THEN "call" ELSE "except"
    /\ UNCHANGED <<route, req_text, req_context, response, service_calls>>
    /\ UNCHANGED rest_of_route

\* `result = await <service>(...)` and the construction of the response
\* model: the service returns, or raises an exception of its own.
RouteCallService ==
    /\ route_pc = "call"
    /\ service_calls' = service_calls + 1
    /\ \E ok \in BOOLEAN :
          /\ route_exc' = IF ok THEN NoException ELSE ServiceFailure
          /\ route_pc' = IF ok THEN "return" ELSE "except"
    /\ UNCHANGED <<route, req_text, req_context, response>>
    /\ UNCHANGED rest_of_route

\* The handler returns its response model (the analyze handler first tries to
\* save the record, and swallows a failure to do so).
RouteReturn ==
    /\ route_pc = "return"
    /\ response' = [status_code |-> 200, detail |-> "OK"]
    /\ route_pc' = "sent"
    /\ UNCHANGED <<route, req_text, req_context, route_exc, service_calls>>
    /\ UNCHANGED rest_of_route

\* The except clauses; the HTTPException that leaves the handler becomes the
\* response.
RouteExcept ==
    /\ route_pc = "except"
    /\ route_exc' = Handle(route, route_exc)
    /\ response' = [status_code |-> route_exc'.status_code, detail |-> route_exc'.detail]
    /\ route_pc' = "sent"
    /\ UNCHANGED <<route, req_text, req_context, service_calls>>
    /\ UNCHANGED rest_of_route

RouteNext ==
    \/ RouteValidate
    \/ RouteCallService
    \/ RouteReturn
    \/ RouteExcept

RouteSpec == RouteInit /\ [][RouteNext]_vars

-----------------------------------------------------------------------------
(* call_llm and the generation backends: rag_service.call_llm, reached     *)
(* directly or through the general chat endpoint, and call_llm of           *)
(* src/src/llm_service.py, which reads its mode from the configuration.     *)

LlmModules == {"rag_service", "llm_service"}

\* The modes the documentation and the configuration name.
LlmModes == {"local_stub", "ollama", "colab_t4", "groq", "gemini", "openai"}

\* What the environment of the backend does to one call: nothing, the
\* connection is refused, the request times out, the server answers with an
\* HTTP error, the answer is not the expected JSON, the API key is missing.
Faults == {"none", "connection", "timeout", "http", "malformed", "credentials"}

\* `llm_mode=request.llm_mode or "groq"` of the general chat endpoint; the
\* field also defaults to "groq".
GeneralChatMode(requested) == IF requested = "unset" THEN "groq" ELSE requested

\* The if / elif / else of call_llm.
Dispatch(module, mode) ==
    IF module = "rag_service"
    THEN IF mode = "ollama" THEN "call_ollama"
         ELSE IF mode = "colab_t4" THEN "call_colab_t4"
         ELSE "call_local_stub"
    ELSE IF mode = "openai" THEN "call_openai_chat"
         ELSE "call_local_stub"

Returned(msg) == [kind |-> "str", text |-> msg]
Raised(exc) == [kind |-> "raise", text |-> exc]

\* What a backend function gives its caller under fault f: the text it
\* returns, or the exception that leaves it.
BackendOutcome(b, f) ==
    IF b = "call_local_stub" THEN Returned("stub text")
    ELSE IF b = "call_ollama"
    THEN IF f = "connection" THEN Returned("ERROR: Ollama is not running")
         ELSE IF f = "timeout" THEN Returned("ERROR: Ollama request timed out")
         ELSE IF f = "http" THEN Returned("ERROR: Ollama HTTP error")
         ELSE IF f = "malformed" THEN Returned("ERROR calling Ollama")
         ELSE Returned("response")
    ELSE IF b = "call_colab_t4"
    THEN IF f \in {"connection", "timeout", "http"}
         THEN Returned("Error calling Colab T4")
         ELSE IF f = "malformed" THEN Returned("response.text")
         ELSE Returned("response")
    ELSE IF b \in {"call_groq", "call_gemini"}
    THEN IF f = "credentials" THEN Returned("ERROR: API key not found in environment")
         ELSE IF f = "none" THEN Returned("response")
         ELSE Returned("ERROR calling the API")
    ELSE \* call_openai_chat: no try block around the client
         IF f = "none" THEN Returned("response")
         ELSE IF f = "credentials" THEN Raised("OpenAIError")
         ELSE IF f = "connection" THEN Raised("APIConnectionError")
         ELSE IF f = "timeout" THEN Raised("APITimeoutError")
         ELSE IF f = "http" THEN Raised("APIStatusError")
         ELSE Raised("APIResponseValidationError")

LlmInit ==
    /\ llm_module \in LlmModules
    /\ llm_entry \in IF llm_module = "rag_service"
                     THEN {"call_llm", "general_chat"} ELSE {"call_llm"}
    /\ llm_mode \in IF llm_entry = "general_chat"
                    THEN LlmModes \cup {"unset"} ELSE LlmModes
    /\ fault \in Faults
    /\ backend = "none"
    /\ llm_pc = "entry"
    /\ llm_result = NoResult
    /\ RouteIdle
    /\ OrchIdle
    /\ PipeIdle
    /\ ChunkerIdle
    /\ IndexIdle
    /\ ServiceIdle
    /\ CacheIdle

rest_of_llm == <<pipe_vars, chunker_vars, index_vars, service_vars, cache_vars, ge,
                 route_vars, orch_vars>>

\* The caller passes its mode to call_llm: the general chat endpoint fills in
\* its default, the other callers pass the mode they were given.
LlmEnter ==
    /\ llm_pc = "entry"
    /\ llm_mode' = IF llm_entry = "general_chat" THEN GeneralChatMode(llm_mode)
                   ELSE llm_mode
    /\ llm_pc' = "call"
    /\ UNCHANGED <<llm_module, llm_entry, fault, backend, llm_result>>
    /\ UNCHANGED rest_of_llm

\* call_llm picks the backend function.
LlmDispatch ==
    /\ llm_pc = "call"
    /\ backend' = Dispatch(llm_module, llm_mode)
    /\ llm_pc' = "backend"
    /\ UNCHANGED <<llm_module, llm_entry, llm_mode, fault, llm_result>>
    /\ UNCHANGED rest_of_llm

\* The backend function runs and call_llm passes its outcome on.
LlmBackend ==
    /\ llm_pc = "backend"
    /\ llm_result' = BackendOutcome(backend, fault)
    /\ llm_pc' = "done"
    /\ UNCHANGED <<llm_module, llm_entry, llm_mode, fault, backend>>
    /\ UNCHANGED rest_of_llm

LlmNext ==
    \/ LlmEnter
    \/ LlmDispatch
    \/ LlmBackend

LlmSpec == LlmInit /\ [][LlmNext]_vars

-----------------------------------------------------------------------------
(* More str methods, as the generation stub and the orchestrators use them *)

UpperCase == {UpperMap[k] : k \in DOMAIN UpperMap}

\* str.lower() on one character (ASCII letters; everything else is kept).
LowerMap == [c \in UpperCase |-> CHOOSE k \in DOMAIN UpperMap : UpperMap[k] = c]

lower_char(c) == IF c \in UpperCase THEN LowerMap[c] ELSE c

\* s.lower()
lower(s) == [i \in 1..Len(s) |-> lower_char(s[i])]

\* sub occurs in text at the 1-based position p.
StartsAt(text, p, sub) ==
    /\ p + Len(sub) - 1 <= Len(text)
    /\ \A i \in 1..Len(sub) : text[p + i - 1] = sub[i]

\* `sub in text`
Contains(text, sub) == \E p \in 1..(Len(text) - Len(sub) + 1) : StartsAt(text, p, sub)

\* any(word in text for word in words)
ContainsAny(text, words) == \E i \in 1..Len(words) : Contains(text, words[i])

\* text.find(sub, from): the 0-based index of the first occurrence of sub at
\* or after the 0-based index from, or -1.
find(text, sub, from) ==
    LET ps == {p \in (from + 1)..(Len(text) - Len(sub) + 1) : StartsAt(text, p, sub)}
    IN  IF ps = {} THEN 0 - 1 ELSE MinOf(ps) - 1

\* s.startswith(prefix)
startswith(s, prefix) == StartsAt(s, 1, prefix)

\* text.split(sep) for a one-character separator: the pieces between the
\* separators, empty pieces included.
RECURSIVE split_from(_, _, _)
split_from(text, sep, from) ==
    LET ps == {p \in from..Len(text) : text[p] = sep}
    IN  IF ps = {} THEN <<SubSeq(text, from, Len(text))>>
        ELSE <<SubSeq(text, from, MinOf(ps) - 1)>> \o split_from(text, sep, MinOf(ps) + 1)

split(text, sep) == split_from(text, sep, 1)

\* text.split(): the maximal runs of non-whitespace characters.
RECURSIVE split_words_from(_, _)
split_words_from(text, from) ==
    LET a == SkipSpaces(text, from)
        e == {p \in a..Len(text) : IsSpace(text[p])}
        b == IF e = {} THEN Len(text) + 1 ELSE MinOf(e)
    IN  IF a > Len(text) THEN <<>>
        ELSE <<SubSeq(text, a, b - 1)>> \o split_words_from(text, b)

split_words(text) == split_words_from(text, 1)

\* The concatenation of xss[lo..hi], with sep between neighbours (halving
\* keeps the nesting of the evaluation shallow on long lists).
RECURSIVE join_range(_, _, _, _)
join_range(sep, xss, lo, hi) ==
    IF lo > hi THEN <<>>
    ELSE IF lo = hi THEN xss[lo]
    ELSE LET mid == (lo + hi) \div 2
         IN  join_range(sep, xss, lo, mid) \o sep \o join_range(sep, xss, mid + 1, hi)

\* sep.join(parts)
join(sep, parts) == join_range(sep, parts, 1, Len(parts))

IsLetter(c) == c \in UpperCase \/ c \in DOMAIN UpperMap

IsDigit(c) == c \in {"0", "1", "2", "3", "4", "5", "6", "7", "8", "9"}

\* s.title(): a letter that follows a non-letter is upper-cased, every other
\* letter lower-cased.
title(s) ==
    [i \in 1..Len(s) |->
        IF i = 1 \/ ~IsLetter(s[i - 1]) THEN upper_char(s[i]) ELSE lower_char(s[i])]

\* [x for x in xs if x in kept]
filter_in(xs, kept) ==
    join(<<>>, [i \in 1..Len(xs) |-> IF xs[i] \in kept THEN <<xs[i]>> ELSE <<>>])

\* xs[:n]
take(xs, n) == SubSeq(xs, 1, Min(n, Len(xs)))

\* The concatenation of a list of lists.
flatten(xss) == join(<<>>, xss)

-----------------------------------------------------------------------------
(* json.dumps(obj, indent=2) and json.loads(text)                          *)
(*                                                                         *)
(* A JSON value is [t, v]: t is "str" (v the characters), "num" (v the     *)
(* literal), "list" (v the items), "dict" (v the [key, value] pairs in     *)
(* order), "bool" (v is <<"t","r","u","e">> or <<"f","a","l","s","e">>) or "null", which is None.       *)

JStr(s) == [t |-> "str", v |-> s]
JList(items) == [t |-> "list", v |-> items]
JDict(pairs) == [t |-> "dict", v |-> pairs]
\* The escape sequences of the encoder (the other control characters and the
\* non-ASCII characters, which it writes as \uXXXX, are not in the model's
\* texts).
json_escape_char(c) ==
    IF c = "\"" THEN <<"\\","\"">>
    ELSE IF c = "\\" THEN <<"\\","\\">>
    ELSE IF c = "\n" THEN <<"\\","n">>
    ELSE IF c = "\t" THEN <<"\\","t">>
    ELSE <<c>>

json_encode_str(s) ==
    <<"\"">> \o flatten([i \in 1..Len(s) |-> json_escape_char(s[i])]) \o <<"\"">>

\* The newline and the indentation of nesting level lvl, indent=2.
json_newline(lvl) == <<"\n">> \o [i \in 1..(2 * lvl) |-> " "]

RECURSIVE json_encode(_, _)
json_encode(x, lvl) ==
    IF x.t = "str" THEN json_encode_str(x.v)
    ELSE IF x.t = "null" THEN <<"n","u","l","l">>
    ELSE IF x.t \in {"num", "bool"} THEN x.v
    ELSE IF x.t = "list"
    THEN IF x.v = <<>> THEN <<"[","]">>
         ELSE <<"[">> \o json_newline(lvl + 1)
              \o join(<<",">> \o json_newline(lvl + 1),
                      [i \in 1..Len(x.v) |-> json_encode(x.v[i], lvl + 1)])
              \o json_newline(lvl) \o <<"]">>
    ELSE IF x.v = <<>> THEN <<"{","}">>
         ELSE <<"{">> \o json_newline(lvl + 1)
              \o join(<<",">> \o json_newline(lvl + 1),
                      [i \in 1..Len(x.v) |->
                          json_encode_str(x.v[i].key) \o <<":"," ">>
                          \o json_encode(x.v[i].value, lvl + 1)])
              \o json_newline(lvl) \o <<"}">>

\* json.dumps(obj, indent=2)
json_dumps(obj) == json_encode(obj, 0)

\* The decoder works on 1-based positions; an error carries the 0-based
\* position the exception reports.
JsonOk(val, nxt) == [ok |-> TRUE, value |-> val, next |-> nxt, msg |-> <<>>, pos |-> 0]
JsonError(m, p) == [ok |-> FALSE, value |-> None, next |-> 0, msg |-> m, pos |-> p - 1]

\* A value computed once and bound to a name, as an assignment does.
Bind(v, F(_)) == CHOOSE r \in {F(x) : x \in {v}} : TRUE

\* The characters of a string literal from position p on (the opening quote
\* is at position open), decoded, up to the closing quote; a run of plain
\* characters is taken at once.
RECURSIVE scanstring(_, _, _, _)
scanstring(s, p, open, acc) ==
    Bind(LET stops == {i \in p..Len(s) : s[i] \in {"\"", "\\", "\n", "\t"}}
         IN  IF stops = {} THEN Len(s) + 1 ELSE MinOf(stops), LAMBDA q :
    Bind(acc \o SubSeq(s, p, q - 1), LAMBDA run :
    IF q > Len(s) THEN JsonError(<<"U","n","t","e","r","m","i","n","a","t","e","d"," ","s","t","r","i","n","g"," ","s","t","a","r","t","i","n","g"," ","a","t">>, open)
    ELSE IF s[q] = "\"" THEN JsonOk(JStr(run), q + 1)
    ELSE IF s[q] \in {"\n", "\t"}
    THEN JsonError(<<"I","n","v","a","l","i","d"," ","c","o","n","t","r","o","l"," ","c","h","a","r","a","c","t","e","r"," ","a","t">>, q)
    ELSE IF q + 1 > Len(s)
    THEN JsonError(<<"U","n","t","e","r","m","i","n","a","t","e","d"," ","s","t","r","i","n","g"," ","s","t","a","r","t","i","n","g"," ","a","t">>, open)
    ELSE IF s[q + 1] \in {"\"", "\\", "/"}
    THEN scanstring(s, q + 2, open, Append(run, s[q + 1]))
    ELSE IF s[q + 1] = "n" THEN scanstring(s, q + 2, open, Append(run, "\n"))
    ELSE IF s[q + 1] = "t" THEN scanstring(s, q + 2, open, Append(run, "\t"))
    ELSE JsonError(<<"I","n","v","a","l","i","d"," ","\\","e","s","c","a","p","e">>, q)))

\* The end (exclusive) of the run of digits that starts at p.
RECURSIVE digits_end(_, _)
digits_end(s, p) == IF p <= Len(s) /\ IsDigit(s[p]) THEN digits_end(s, p + 1) ELSE p

\* The end (exclusive) of the number literal at p, -?(0|[1-9]\d*)(\.\d+)? with
\* an optional exponent, or p if there is none.
number_end(s, p) ==
    LET a == IF p <= Len(s) /\ s[p] = "-" THEN p + 1 ELSE p
        b == IF a <= Len(s) /\ s[a] = "0" THEN a + 1 ELSE digits_end(s, a)
        c == IF b + 1 <= Len(s) /\ s[b] = "." /\ IsDigit(s[b + 1])
             THEN digits_end(s, b + 1) ELSE b
        x == IF c <= Len(s) /\ s[c] \in {"e", "E"}
             THEN IF c + 1 <= Len(s) /\ s[c + 1] \in {"+", "-"} THEN c + 2 ELSE c + 1
             ELSE c
        d == IF x > c /\ x <= Len(s) /\ IsDigit(s[x]) THEN digits_end(s, x) ELSE c
    IN  IF b = a THEN p ELSE d

RECURSIVE scan_once(_, _), JSONArray(_, _, _), JSONObject(_, _, _)

\* One value at position p.
scan_once(s, p) ==
    IF p > Len(s) THEN JsonError(<<"E","x","p","e","c","t","i","n","g"," ","v","a","l","u","e">>, p)
    ELSE IF s[p] = "\"" THEN scanstring(s, p + 1, p, <<>>)
    ELSE IF s[p] = "{" THEN JSONObject(s, SkipSpaces(s, p + 1), <<>>)
    ELSE IF s[p] = "[" THEN JSONArray(s, SkipSpaces(s, p + 1), <<>>)
    ELSE IF StartsAt(s, p, <<"n","u","l","l">>) THEN JsonOk(None, p + 4)
    ELSE IF StartsAt(s, p, <<"t","r","u","e">>) THEN JsonOk([t |-> "bool", v |-> <<"t","r","u","e">>], p + 4)
    ELSE IF StartsAt(s, p, <<"f","a","l","s","e">>) THEN JsonOk([t |-> "bool", v |-> <<"f","a","l","s","e">>], p + 5)
    ELSE IF number_end(s, p) > p
         THEN JsonOk([t |-> "num", v |-> SubSeq(s, p, number_end(s, p) - 1)],
                     number_end(s, p))
    ELSE JsonError(<<"E","x","p","e","c","t","i","n","g"," ","v","a","l","u","e">>, p)

\* The items of an array from position p on, acc holding those read so far;
\* p is past the bracket (or the comma) and the whitespace after it.
JSONArray(s, p, acc) ==
    IF acc = <<>> /\ p <= Len(s) /\ s[p] = "]" THEN JsonOk(JList(<<>>), p + 1)
    ELSE Bind(scan_once(s, p), LAMBDA item :
         IF ~item.ok THEN item
         ELSE Bind(SkipSpaces(s, item.next), LAMBDA q :
              IF q <= Len(s) /\ s[q] = "]"
              THEN JsonOk(JList(Append(acc, item.value)), q + 1)
              ELSE IF q <= Len(s) /\ s[q] = ","
              THEN Bind(<<SkipSpaces(s, q + 1), Append(acc, item.value)>>,
                        LAMBDA a : JSONArray(s, a[1], a[2]))
              ELSE JsonError(<<"E","x","p","e","c","t","i","n","g"," ","'",",","'"," ","d","e","l","i","m","i","t","e","r">>, q)))

\* The members of an object from position p on.
JSONObject(s, p, acc) ==
    IF acc = <<>> /\ p <= Len(s) /\ s[p] = "}" THEN JsonOk(JDict(<<>>), p + 1)
    ELSE IF p > Len(s) \/ s[p] # "\""
    THEN JsonError(<<"E","x","p","e","c","t","i","n","g"," ","p","r","o","p","e","r","t","y"," ","n","a","m","e"," ","e","n","c","l","o","s","e","d"," ","i","n"," ","d","o","u","b","l","e"," ","q","u","o","t","e","s">>, p)
    ELSE Bind(scanstring(s, p + 1, p, <<>>), LAMBDA k :
         IF ~k.ok THEN k
         ELSE Bind(SkipSpaces(s, k.next), LAMBDA c :
              IF c > Len(s) \/ s[c] # ":"
              THEN JsonError(<<"E","x","p","e","c","t","i","n","g"," ","'",":","'"," ","d","e","l","i","m","i","t","e","r">>, c)
              ELSE Bind(scan_once(s, SkipSpaces(s, c + 1)), LAMBDA val :
                   IF ~val.ok THEN val
                   ELSE Bind(<<SkipSpaces(s, val.next),
                               Append(acc, [key |-> k.value.v, value |-> val.value])>>,
                             LAMBDA a :
                        IF a[1] <= Len(s) /\ s[a[1]] = "}"
                        THEN JsonOk(JDict(a[2]), a[1] + 1)
                        ELSE IF a[1] <= Len(s) /\ s[a[1]] = ","
                        THEN Bind(SkipSpaces(s, a[1] + 1),
                                  LAMBDA nxt : JSONObject(s, nxt, a[2]))
                        ELSE JsonError(<<"E","x","p","e","c","t","i","n","g"," ","'",",","'"," ","d","e","l","i","m","i","t","e","r">>, a[1])))))

\* str(e) of a JSONDecodeError: "<msg>: line L column C (char P)".
json_error_text(s, m, pos) ==
    LET nls    == {i \in 1..pos : s[i] = "\n"}
        lineno == Cardinality(nls) + 1
        last   == CHOOSE i \in nls : \A j \in nls : j <= i
        colno  == IF nls = {} THEN pos + 1 ELSE pos - (last - 1)
    IN  m \o <<":"," ","l","i","n","e"," ">> \o str_int(lineno) \o <<" ","c","o","l","u","m","n"," ">> \o str_int(colno)
          \o <<" ","(","c","h","a","r"," ">> \o str_int(pos) \o <<")">>

\* json.loads(text): the value, or the message of the exception it raises.
json_loads(s) ==
    Bind(scan_once(s, SkipSpaces(s, 1)), LAMBDA r :
    IF ~r.ok THEN [ok |-> FALSE, value |-> None,
                   error |-> json_error_text(s, r.msg, r.pos)]
    ELSE Bind(SkipSpaces(s, r.next), LAMBDA e :
         IF e <= Len(s)
         THEN [ok |-> FALSE, value |-> None,
               error |-> json_error_text(s, <<"E","x","t","r","a"," ","d","a","t","a">>, e - 1)]
         ELSE [ok |-> TRUE, value |-> r.value, error |-> <<>>]))

-----------------------------------------------------------------------------
(* call_local_stub: the canned generation backend                          *)

\* The body of the loop of extract_chunk_ids: the identifier a line gives.
ChunkIdOfLine(line, keyword) ==
    IF Contains(lower(line), keyword) /\ Contains(line, <<"[">>) /\ Contains(line, <<"]">>)
    THEN LET st == find(line, <<"[">>, 0)
             en == find(line, <<"]">>, st)
             chunk_id == PySlice(line, st + 1, en)
         IN  IF /\ st # 0 - 1
                /\ en # 0 - 1
                /\ chunk_id # <<>>
                /\ ~startswith(chunk_id, <<"e","v","i","d","e","n","c","e">>)
                /\ Contains(chunk_id, <<"_">>)
             THEN <<chunk_id>>
             ELSE <<>>
    ELSE <<>>

\* extract_chunk_ids(text, keyword): the bracketed identifiers of the lines
\* that hold the keyword, the first two of them.
extract_chunk_ids(text, keyword) ==
    LET lines == split(text, "\n")
    IN  take(flatten([i \in 1..Len(lines) |-> ChunkIdOfLine(lines[i], keyword)]), 2)

\* Every identifier extract_chunk_ids can give for a text.
BracketIds(text) ==
    LET lines == split(text, "\n")
    IN  {ChunkIdOfLine(lines[i], <<>>)[1] :
            i \in {j \in 1..Len(lines) : ChunkIdOfLine(lines[j], <<>>) # <<>>}}

\* The orders in which a set of strings may be iterated: list(set(xs)) takes
\* its order from the hashes of the strings, which differ from run to run.
RECURSIVE SetOrders(_)
SetOrders(S) ==
    IF S = {} THEN {<<>>}
    ELSE UNION {{<<x>> \o rest : rest \in SetOrders(S \ {x})} : x \in S}

\* list(set(xs)) under the iteration order `order`.
list_set(xs, order) == filter_in(order, {xs[i] : i \in 1..Len(xs)})

\* The keyword tests of the differential branch on the lower-cased prompt.
DdxFlags(lowered) ==
    [fever |-> ContainsAny(lowered, <<<<"f","e","v","e","r">>, <<"f","e","b","r","i","l","e">>, <<"t","e","m","p","e","r","a","t","u","r","e">>>>),
     chest_pain |-> ContainsAny(lowered, <<<<"c","h","e","s","t"," ","p","a","i","n">>, <<"c","h","e","s","t"," ","d","i","s","c","o","m","f","o","r","t">>>>),
     sob |-> ContainsAny(lowered, <<<<"s","h","o","r","t","n","e","s","s"," ","o","f"," ","b","r","e","a","t","h">>, <<"d","y","s","p","n","e","a">>, <<"s","o","b">>>>),
     cough |-> Contains(lowered, <<"c","o","u","g","h">>),
     headache |-> Contains(lowered, <<"h","e","a","d","a","c","h","e">>),
     neck |-> ContainsAny(lowered, <<<<"n","e","c","k"," ","s","t","i","f","f","n","e","s","s">>, <<"n","u","c","h","a","l">>>>),
     meningeal |-> ContainsAny(lowered, <<<<"m","e","n","i","n","g","e","a","l">>, <<"k","e","r","n","i","g">>, <<"b","r","u","d","z","i","n","s","k","i">>>>),
     confusion |-> ContainsAny(lowered, <<<<"c","o","n","f","u","s","i","o","n">>, <<"a","l","t","e","r","e","d">>, <<"d","i","s","o","r","i","e","n","t","e","d">>>>),
     elevated_wbc |-> Contains(lowered, <<"w","b","c">>) \/ Contains(lowered, <<"w","h","i","t","e"," ","b","l","o","o","d">>),
     troponin |-> Contains(lowered, <<"t","r","o","p","o","n","i","n">>),
     orthopnea |-> Contains(lowered, <<"o","r","t","h","o","p","n","e","a">>),
     edema |-> ContainsAny(lowered, <<<<"e","d","e","m","a">>, <<"s","w","e","l","l","i","n","g">>, <<"l","e","g"," ","s","w","e","l","l","i","n","g">>>>),
     jvd |-> ContainsAny(lowered, <<<<"j","u","g","u","l","a","r">>, <<"j","v","p">>, <<"j","v","d">>>>),
     crackles |-> ContainsAny(lowered, <<<<"c","r","a","c","k","l","e","s">>, <<"r","a","l","e","s">>>>),
     bnp |-> Contains(lowered, <<"b","n","p">>),
     hypertension |-> ContainsAny(lowered, <<<<"h","y","p","e","r","t","e","n","s","i","o","n">>, <<"b","l","o","o","d"," ","p","r","e","s","s","u","r","e">>>>),
     ckd |-> ContainsAny(lowered, <<<<"c","h","r","o","n","i","c"," ","k","i","d","n","e","y">>, <<"c","k","d">>, <<"r","e","n","a","l">>>>)]

\* The six diagnoses of the stub in the order it tests them: when each is
\* made, the keywords its evidence is looked up by, and its fixed texts.
Diagnoses(has) == <<
    [made |-> (has.sob /\ has.orthopnea /\ has.edema) \/ (has.jvd /\ has.crackles)
                \/ has.bnp,
     keywords |-> <<<<"s","h","o","r","t","n","e","s","s">>, <<"o","r","t","h","o","p","n","e","a">>, <<"e","d","e","m","a">>, <<"s","w","e","l","l","i","n","g">>, <<"j","u","g","u","l","a","r">>,
                    <<"c","r","a","c","k","l","e","s">>, <<"b","n","p">>, <<"c","a","r","d","i","o","m","e","g","a","l","y">>>>,
     diagnosis |-> <<"A","c","u","t","e"," ","D","e","c","o","m","p","e","n","s","a","t","e","d"," ","H","e","a","r","t"," ","F","a","i","l","u","r","e">>,
     confidence |-> <<"H","i","g","h">>,
     rationale |-> <<"C","l","a","s","s","i","c"," ","p","r","e","s","e","n","t","a","t","i","o","n"," ","w","i","t","h"," ","d","y","s","p","n","e","a",","," ","o","r","t","h","o","p","n","e","a",","," ","b","i","l","a","t","e","r","a","l"," ","e","d","e","m","a",","," ","e","l","e","v","a","t","e","d"," ","J","V","P",","," ","c","r","a","c","k","l","e","s",","," ","e","l","e","v","a","t","e","d"," ","B","N","P",","," ","a","n","d"," ","r","a","d","i","o","g","r","a","p","h","i","c"," ","f","i","n","d","i","n","g","s"," ","o","f"," ","c","a","r","d","i","o","m","e","g","a","l","y"," ","a","n","d"," ","p","u","l","m","o","n","a","r","y"," ","c","o","n","g","e","s","t","i","o","n",".">>],
    [made |-> has.hypertension /\ (has.sob \/ has.headache \/ has.confusion),
     keywords |-> <<<<"b","l","o","o","d"," ","p","r","e","s","s","u","r","e">>, <<"h","y","p","e","r","t","e","n","s","i","o","n">>>>,
     diagnosis |-> <<"H","y","p","e","r","t","e","n","s","i","v","e"," ","E","m","e","r","g","e","n","c","y">>,
     confidence |-> <<"M","e","d","i","u","m">>,
     rationale |-> <<"S","i","g","n","i","f","i","c","a","n","t","l","y"," ","e","l","e","v","a","t","e","d"," ","b","l","o","o","d"," ","p","r","e","s","s","u","r","e"," ","w","i","t","h"," ","e","v","i","d","e","n","c","e"," ","o","f"," ","e","n","d","-","o","r","g","a","n"," ","d","y","s","f","u","n","c","t","i","o","n",".">>],
    [made |-> has.ckd /\ has.edema /\ has.sob,
     keywords |-> <<<<"k","i","d","n","e","y">>, <<"r","e","n","a","l">>, <<"e","d","e","m","a">>, <<"f","l","u","i","d">>>>,
     diagnosis |-> <<"R","e","n","a","l"," ","F","l","u","i","d"," ","O","v","e","r","l","o","a","d">>,
     confidence |-> <<"M","e","d","i","u","m">>,
     rationale |-> <<"C","h","r","o","n","i","c"," ","k","i","d","n","e","y"," ","d","i","s","e","a","s","e"," ","l","e","a","d","i","n","g"," ","t","o"," ","f","l","u","i","d"," ","r","e","t","e","n","t","i","o","n"," ","a","n","d"," ","v","o","l","u","m","e"," ","o","v","e","r","l","o","a","d",".">>],
    [made |-> (has.fever /\ has.neck /\ has.headache) \/ has.meningeal,
     keywords |-> <<<<"f","e","v","e","r">>, <<"n","e","c","k">>, <<"n","u","c","h","a","l">>, <<"h","e","a","d","a","c","h","e">>, <<"m","e","n","i","n","g","e","a","l">>>>,
     diagnosis |-> <<"B","a","c","t","e","r","i","a","l"," ","M","e","n","i","n","g","i","t","i","s">>,
     confidence |-> <<"H","i","g","h">>,
     rationale |-> <<"C","l","a","s","s","i","c"," ","t","r","i","a","d"," ","o","f"," ","f","e","v","e","r",","," ","s","e","v","e","r","e"," ","h","e","a","d","a","c","h","e",","," ","a","n","d"," ","n","u","c","h","a","l"," ","r","i","g","i","d","i","t","y"," ","w","i","t","h"," ","p","o","s","i","t","i","v","e"," ","m","e","n","i","n","g","e","a","l"," ","s","i","g","n","s",".">>],
    [made |-> has.fever /\ (has.cough \/ has.sob) /\ has.elevated_wbc,
     keywords |-> <<<<"f","e","v","e","r">>, <<"c","o","u","g","h">>, <<"b","r","e","a","t","h">>, <<"w","b","c">>>>,
     diagnosis |-> <<"C","o","m","m","u","n","i","t","y","-","A","c","q","u","i","r","e","d"," ","P","n","e","u","m","o","n","i","a">>,
     confidence |-> <<"H","i","g","h">>,
     rationale |-> <<"F","e","v","e","r"," ","w","i","t","h"," ","r","e","s","p","i","r","a","t","o","r","y"," ","s","y","m","p","t","o","m","s"," ","a","n","d"," ","l","e","u","k","o","c","y","t","o","s","i","s"," ","s","u","g","g","e","s","t","s"," ","b","a","c","t","e","r","i","a","l"," ","p","n","e","u","m","o","n","i","a",".">>],
    [made |-> has.chest_pain /\ (has.troponin \/ has.sob),
     keywords |-> <<<<"c","h","e","s","t">>, <<"p","a","i","n">>, <<"t","r","o","p","o","n","i","n">>>>,
     diagnosis |-> <<"A","c","u","t","e"," ","M","y","o","c","a","r","d","i","a","l"," ","I","n","f","a","r","c","t","i","o","n">>,
     confidence |-> <<"H","i","g","h">>,
     rationale |-> <<"C","h","e","s","t"," ","p","a","i","n"," ","w","i","t","h"," ","e","l","e","v","a","t","e","d"," ","t","r","o","p","o","n","i","n"," ","c","o","n","c","e","r","n","i","n","g"," ","f","o","r"," ","a","c","u","t","e"," ","M","I",".">>] >>

\* One entry of the differential, as the dict the stub appends.
DdxEntry(diagnosis, confidence, rationale, evidence) ==
    JDict(<<[key |-> <<"d","i","a","g","n","o","s","i","s">>, value |-> JStr(diagnosis)],
            [key |-> <<"c","o","n","f","i","d","e","n","c","e">>, value |-> JStr(confidence)],
            [key |-> <<"r","a","t","i","o","n","a","l","e">>, value |-> JStr(rationale)],
            [key |-> <<"e","v","i","d","e","n","c","e">>,
             value |-> JList([i \in 1..Len(evidence) |-> JStr(evidence[i])])]>>)

\* The evidence list of a diagnosis: up to three of the identifiers found by
\* its keywords, or the placeholder when none is found.
EvidenceOf(user_prompt, keywords, order) ==
    LET found == flatten([i \in 1..Len(keywords) |->
                             extract_chunk_ids(user_prompt, keywords[i])])
        evidence_chunks == take(list_set(found, order), 3)
    IN  IF evidence_chunks # <<>> THEN evidence_chunks ELSE <<<<"C","L","I","N","I","C","A","L">>>>

Undifferentiated ==
    DdxEntry(<<"U","n","d","i","f","f","e","r","e","n","t","i","a","t","e","d"," ","I","l","l","n","e","s","s">>, <<"L","o","w">>,
             <<"C","l","i","n","i","c","a","l"," ","p","r","e","s","e","n","t","a","t","i","o","n"," ","r","e","q","u","i","r","e","s"," ","f","u","r","t","h","e","r"," ","d","i","a","g","n","o","s","t","i","c"," ","w","o","r","k","u","p",".">>, <<>>)

\* The differential branch: json.dumps(ddx[:3], indent=2).
StubDdxList(user_prompt, order) ==
    LET ds  == Diagnoses(DdxFlags(lower(user_prompt)))
        ddx == flatten([k \in 1..Len(ds) |->
                   IF ds[k].made
                   THEN <<DdxEntry(ds[k].diagnosis, ds[k].confidence, ds[k].rationale,
                                   EvidenceOf(user_prompt, ds[k].keywords, order))>>
                   ELSE <<>>])
    IN  JList(take(IF ddx = <<>> THEN <<Undifferentiated>> ELSE ddx, 3))

StubDdx(user_prompt, order) == json_dumps(StubDdxList(user_prompt, order))

\* [text for (test, text) in findings if test]
Selected(findings) ==
    flatten([i \in 1..Len(findings) |->
                IF findings[i].on THEN <<findings[i].text>> ELSE <<>>])

\* The SOAP branch: the four lines the stub writes from its keyword tests.
StubSoap(lowered) ==
    LET has(kw) == Contains(lowered, kw)
        subjective == Selected(<<
            [on |-> has(<<"f","e","v","e","r">>), text |-> <<"f","e","v","e","r">>],
            [on |-> has(<<"h","e","a","d","a","c","h","e">>), text |-> <<"s","e","v","e","r","e"," ","h","e","a","d","a","c","h","e">>],
            [on |-> has(<<"n","e","c","k"," ","s","t","i","f","f","n","e","s","s">>) \/ has(<<"n","u","c","h","a","l"," ","r","i","g","i","d","i","t","y">>),
             text |-> <<"n","e","c","k"," ","s","t","i","f","f","n","e","s","s">>],
            [on |-> has(<<"s","h","o","r","t","n","e","s","s"," ","o","f"," ","b","r","e","a","t","h">>) \/ has(<<"d","y","s","p","n","e","a">>) \/ has(<<"s","o","b">>),
             text |-> <<"p","r","o","g","r","e","s","s","i","v","e"," ","s","h","o","r","t","n","e","s","s"," ","o","f"," ","b","r","e","a","t","h">>],
            [on |-> has(<<"o","r","t","h","o","p","n","e","a">>), text |-> <<"o","r","t","h","o","p","n","e","a">>],
            [on |-> has(<<"l","e","g"," ","s","w","e","l","l","i","n","g">>) \/ has(<<"e","d","e","m","a">>),
             text |-> <<"b","i","l","a","t","e","r","a","l"," ","l","e","g"," ","s","w","e","l","l","i","n","g">>]>>)
        objective == Selected(<<
            [on |-> has(<<"t","e","m","p">>) \/ has(<<"f","e","v","e","r">>), text |-> <<"e","l","e","v","a","t","e","d"," ","t","e","m","p","e","r","a","t","u","r","e">>],
            [on |-> has(<<"n","u","c","h","a","l"," ","r","i","g","i","d","i","t","y">>), text |-> <<"p","o","s","i","t","i","v","e"," ","m","e","n","i","n","g","e","a","l"," ","s","i","g","n","s">>],
            [on |-> has(<<"w","b","c">>), text |-> <<"e","l","e","v","a","t","e","d"," ","W","B","C">>],
            [on |-> has(<<"j","u","g","u","l","a","r">>) \/ has(<<"j","v","p">>), text |-> <<"e","l","e","v","a","t","e","d"," ","J","V","P">>],
            [on |-> has(<<"c","r","a","c","k","l","e","s">>) \/ has(<<"r","a","l","e","s">>), text |-> <<"b","i","l","a","t","e","r","a","l"," ","b","a","s","a","l"," ","c","r","a","c","k","l","e","s">>],
            [on |-> has(<<"e","d","e","m","a">>) \/ has(<<"p","i","t","t","i","n","g">>), text |-> <<"p","i","t","t","i","n","g"," ","e","d","e","m","a">>],
            [on |-> (has(<<"b","l","o","o","d"," ","p","r","e","s","s","u","r","e">>) \/ has(<<"b","p">>))
                    /\ (has(<<"1","6","8">>) \/ has(<<"h","y","p","e","r","t","e","n","s","i","o","n">>)),
             text |-> <<"B","P"," ","1","6","8","/","9","2"," ","m","m","H","g">>],
            [on |-> has(<<"b","n","p">>), text |-> <<"B","N","P"," ","9","8","0"," ","p","g","/","m","L">>],
            [on |-> has(<<"c","a","r","d","i","o","m","e","g","a","l","y">>) \/ has(<<"p","u","l","m","o","n","a","r","y"," ","c","o","n","g","e","s","t","i","o","n">>),
             text |-> <<"c","a","r","d","i","o","m","e","g","a","l","y"," ","a","n","d"," ","p","u","l","m","o","n","a","r","y"," ","c","o","n","g","e","s","t","i","o","n"," ","o","n"," ","C","X","R">>]>>)
        assessment ==
            IF (has(<<"s","h","o","r","t","n","e","s","s"," ","o","f"," ","b","r","e","a","t","h">>) \/ has(<<"d","y","s","p","n","e","a">>))
               /\ (has(<<"e","d","e","m","a">>) \/ has(<<"o","r","t","h","o","p","n","e","a">>))
            THEN <<<<"A","c","u","t","e"," ","d","e","c","o","m","p","e","n","s","a","t","e","d"," ","h","e","a","r","t"," ","f","a","i","l","u","r","e">>>>
            ELSE IF has(<<"m","e","n","i","n","g","i","t","i","s">>) THEN <<<<"C","o","n","c","e","r","n","i","n","g"," ","f","o","r"," ","b","a","c","t","e","r","i","a","l"," ","m","e","n","i","n","g","i","t","i","s">>>>
            ELSE <<>>
        s_text == IF subjective # <<>> THEN join(<<","," ">>, subjective)
                  ELSE <<"P","a","t","i","e","n","t"," ","p","r","e","s","e","n","t","s"," ","w","i","t","h"," ","a","c","u","t","e"," ","s","y","m","p","t","o","m","s">>
        o_text == IF objective # <<>> THEN join(<<";"," ">>, objective)
                  ELSE <<"V","i","t","a","l"," ","s","i","g","n","s"," ","a","b","n","o","r","m","a","l">>
        a_text == IF assessment # <<>> THEN assessment[1]
                  ELSE <<"C","l","i","n","i","c","a","l"," ","p","i","c","t","u","r","e"," ","r","e","q","u","i","r","e","s"," ","u","r","g","e","n","t"," ","e","v","a","l","u","a","t","i","o","n">>
        p_text == <<"F","u","r","t","h","e","r"," ","w","o","r","k","u","p"," ","a","n","d"," ","t","r","e","a","t","m","e","n","t"," ","i","n","d","i","c","a","t","e","d">>
    IN  <<"S",":"," ">> \o s_text \o <<"\n","O",":"," ">> \o o_text \o <<"\n","A",":"," ">> \o a_text \o <<"\n","P",":"," ">> \o p_text

\* \b at the 1-based gap before position p: a word character on exactly one
\* side.
IsWordChar(c) == IsLetter(c) \/ IsDigit(c) \/ c = "_"

WordBoundary(s, p) ==
    LET before == p > 1 /\ p - 1 <= Len(s) /\ IsWordChar(s[p - 1])
        after  == p >= 1 /\ p <= Len(s) /\ IsWordChar(s[p])
    IN  before # after

\* re.search(r'\bword\b', s)
SearchWord(s, word) ==
    \E p \in 1..(Len(s) - Len(word) + 1) :
        /\ StartsAt(s, p, word)
        /\ WordBoundary(s, p)
        /\ WordBoundary(s, p + Len(word))

\* re.search(r'(\d+)[- ]year[s]?[- ]old', s): group 1 of the leftmost match,
\* or the empty string when there is none.
AgeAt(s, p) ==
    LET q == digits_end(s, p)
        r == IF q + 5 <= Len(s) /\ s[q + 5] = "s" THEN q + 6 ELSE q + 5
    IN  /\ q > p
        /\ q <= Len(s) /\ s[q] \in {"-", " "}
        /\ StartsAt(s, q + 1, <<"y","e","a","r">>)
        /\ r <= Len(s) /\ s[r] \in {"-", " "}
        /\ StartsAt(s, r + 1, <<"o","l","d">>)

SearchAge(s) ==
    LET ps == {p \in 1..Len(s) : IsDigit(s[p]) /\ AgeAt(s, p)}
    IN  IF ps = {} THEN <<>> ELSE SubSeq(s, MinOf(ps), digits_end(s, MinOf(ps)) - 1)

\* symptom_keywords, in the order of the dict.
SymptomKeywords == <<
    [name |-> <<"p","a","i","n">>, keywords |-> <<<<"p","a","i","n">>, <<"a","c","h","e">>>>],
    [name |-> <<"f","e","v","e","r">>, keywords |-> <<<<"f","e","v","e","r">>, <<"f","e","b","r","i","l","e">>>>],
    [name |-> <<"h","e","a","d","a","c","h","e">>, keywords |-> <<<<"h","e","a","d","a","c","h","e">>>>],
    [name |-> <<"n","a","u","s","e","a">>, keywords |-> <<<<"n","a","u","s","e","a">>, <<"v","o","m","i","t","i","n","g">>>>],
    [name |-> <<"s","h","o","r","t","n","e","s","s"," ","o","f"," ","b","r","e","a","t","h">>, keywords |-> <<<<"s","h","o","r","t","n","e","s","s"," ","o","f"," ","b","r","e","a","t","h">>, <<"d","y","s","p","n","e","a">>>>],
    [name |-> <<"c","o","u","g","h">>, keywords |-> <<<<"c","o","u","g","h">>>>],
    [name |-> <<"n","e","c","k"," ","s","t","i","f","f","n","e","s","s">>, keywords |-> <<<<"n","e","c","k"," ","s","t","i","f","f","n","e","s","s">>, <<"n","u","c","h","a","l"," ","r","i","g","i","d","i","t","y">>>>] >>

\* The line of one symptom: its first keyword found in the prompt decides the
\* evidence; no line when none of its keywords is found.
SymptomLine(user_prompt, lowered, sym) ==
    LET hits == {i \in 1..Len(sym.keywords) : Contains(lowered, sym.keywords[i])}
        ids == extract_chunk_ids(user_prompt, sym.keywords[MinOf(hits)])
    IN  IF hits = {} THEN <<>>
        ELSE <<<<"-"," ">> \o title(sym.name) \o <<" ","[","e","v","i","d","e","n","c","e",":"," ">>
               \o (IF ids # <<>> THEN ids[1] ELSE <<"C","L","I","N","I","C","A","L">>) \o <<"]">>>>

\* The fact-extraction branch: five numbered categories.
StubExtract(user_prompt) ==
    LET lowered == lower(user_prompt)
        age == SearchAge(lowered)
        sex == IF SearchWord(lowered, <<"m","a","l","e">>) /\ ~SearchWord(lowered, <<"f","e","m","a","l","e">>)
               THEN <<<<"-"," ","S","e","x",":"," ","M","a","l","e">>>>
               ELSE IF SearchWord(lowered, <<"f","e","m","a","l","e">>) THEN <<<<"-"," ","S","e","x",":"," ","F","e","m","a","l","e">>>>
               ELSE <<>>
        found == (IF age # <<>> THEN <<<<"-"," ","A","g","e",":"," ">> \o age \o <<" ","y","e","a","r","s">>>> ELSE <<>>) \o sex
        demographics == IF found = <<>> THEN <<<<"-"," ","N","o","t"," ","s","p","e","c","i","f","i","e","d">>>> ELSE found
        lines == flatten([i \in 1..Len(SymptomKeywords) |->
                             SymptomLine(user_prompt, lowered, SymptomKeywords[i])])
        symptoms == IF lines = <<>> THEN <<<<"-"," ","C","h","i","e","f"," ","c","o","m","p","l","a","i","n","t"," ","d","o","c","u","m","e","n","t","e","d">>>> ELSE lines
        exam == IF Contains(lowered, <<"n","u","c","h","a","l"," ","r","i","g","i","d","i","t","y">>) \/ Contains(lowered, <<"m","e","n","i","n","g","e","a","l">>)
                THEN <<<<"-"," ","P","o","s","i","t","i","v","e"," ","m","e","n","i","n","g","e","a","l"," ","s","i","g","n","s"," ","n","o","t","e","d"," ","[","e","v","i","d","e","n","c","e",":"," ","P","H","Y","S","I","C","A","L","]">>>>
                ELSE <<<<"-"," ","V","i","t","a","l"," ","s","i","g","n","s"," ","a","n","d"," ","p","h","y","s","i","c","a","l"," ","e","x","a","m","i","n","a","t","i","o","n"," ","d","o","c","u","m","e","n","t","e","d">>>>
        labs == IF Contains(lowered, <<"w","b","c">>) \/ Contains(lowered, <<"w","h","i","t","e"," ","b","l","o","o","d"," ","c","e","l","l">>)
                THEN <<<<"-"," ","E","l","e","v","a","t","e","d"," ","W","B","C"," ","[","e","v","i","d","e","n","c","e",":"," ","L","A","B","S","]">>>>
                ELSE <<<<"-"," ","L","a","b","o","r","a","t","o","r","y"," ","r","e","s","u","l","t","s"," ","a","v","a","i","l","a","b","l","e">>>>
        assessment == <<<<"-"," ","C","l","i","n","i","c","a","l"," ","a","s","s","e","s","s","m","e","n","t"," ","d","o","c","u","m","e","n","t","e","d">>>>
    IN  join(<<"\n","\n">>, <<
            <<"1","."," ","P","a","t","i","e","n","t"," ","H","i","s","t","o","r","y"," ","&"," ","D","e","m","o","g","r","a","p","h","i","c","s",":","\n">> \o join(<<"\n">>, demographics),
            <<"2","."," ","C","h","i","e","f"," ","C","o","m","p","l","a","i","n","t"," ","&"," ","S","y","m","p","t","o","m","s",":","\n">> \o join(<<"\n">>, symptoms),
            <<"3","."," ","P","h","y","s","i","c","a","l"," ","E","x","a","m"," ","&"," ","V","i","t","a","l","s",":","\n">> \o join(<<"\n">>, exam),
            <<"4","."," ","K","e","y"," ","L","a","b"," ","&"," ","I","m","a","g","i","n","g"," ","F","i","n","d","i","n","g","s",":","\n">> \o join(<<"\n">>, labs),
            <<"5","."," ","C","l","i","n","i","c","i","a","n","'","s"," ","S","t","a","t","e","d"," ","A","s","s","e","s","s","m","e","n","t",":","\n">> \o join(<<"\n">>, assessment)>>)

\* The end (exclusive) of the line that holds position p.
LineEnd(s, p) ==
    LET nl == {i \in p..Len(s) : s[i] = "\n"}
    IN  IF nl = {} THEN Len(s) + 1 ELSE MinOf(nl)

\* re.search(r'USER QUESTION: (.*)', user_prompt, re.IGNORECASE): group 1,
\* or "your question" when there is no match.
StubQuestion(user_prompt) ==
    LET ps == {p \in 1..Len(user_prompt) : StartsAt(lower(user_prompt), p, <<"u","s","e","r"," ","q","u","e","s","t","i","o","n",":"," ">>)}
    IN  IF ps = {} THEN <<"y","o","u","r"," ","q","u","e","s","t","i","o","n">>
        ELSE SubSeq(user_prompt, MinOf(ps) + 15, LineEnd(user_prompt, MinOf(ps) + 15) - 1)

\* re.search(r'CONTEXT:\n(.*?)' + stop, user_prompt, re.DOTALL): whether it
\* matches, and group 1 of the leftmost match with the nearest stop.
SearchContext(user_prompt, stop) ==
    LET ends   == {q \in 1..Len(user_prompt) : StartsAt(user_prompt, q, stop)}
        starts == {p \in 1..Len(user_prompt) :
                      /\ StartsAt(user_prompt, p, <<"C","O","N","T","E","X","T",":","\n">>)
                      /\ \E q \in ends : q >= p + 9}
        p0 == MinOf(starts)
        q0 == MinOf({q \in ends : q >= p0 + 9})
    IN  IF starts = {} THEN [found |-> FALSE, group |-> <<>>]
        ELSE [found |-> TRUE, group |-> SubSeq(user_prompt, p0 + 9, q0 - 1)]

\* The chat branch: the lines of the context that share a word of more than
\* three letters with the question, five of them at most.
StubChat(user_prompt) ==
    LET question == StubQuestion(user_prompt)
        m1 == SearchContext(user_prompt, <<"C","H","A","T"," ","H","I","S","T","O","R","Y">>)
        m2 == SearchContext(user_prompt, <<"U","S","E","R"," ","Q","U","E","S","T","I","O","N">>)
        context == IF m1.found THEN m1.group ELSE IF m2.found THEN m2.group ELSE <<>>
        lines == split(context, "\n")
        words == split_words(lower(question))
        q_words == {words[i] : i \in {j \in 1..Len(words) : Len(words[j]) > 3}}
        hit(line) == Len(line) > 20 /\ \E w \in q_words : Contains(lower(line), w)
        found == flatten([i \in 1..Len(lines) |->
                            IF hit(lines[i]) THEN <<<<"-"," ">> \o strip(lines[i])>> ELSE <<>>])
    IN  join(<<"\n">>,
             <<<<"B","a","s","e","d"," ","o","n"," ","t","h","e"," ","a","n","a","l","y","s","i","s"," ","r","e","g","a","r","d","i","n","g"," ","\"">> \o question \o <<"\"",":","\n">>>>
             \o take(found, 5)
             \o (IF found = <<>>
                 THEN <<<<"I"," ","c","o","u","l","d","n","'","t"," ","f","i","n","d"," ","s","p","e","c","i","f","i","c"," ","e","v","i","d","e","n","c","e"," ","f","o","r"," ","t","h","a","t"," ","i","n"," ","t","h","e"," ","c","l","i","n","i","c","a","l"," ","n","o","t","e",","," ","b","u","t"," ","b","a","s","e","d"," ","o","n"," ","t","h","e"," ","g","e","n","e","r","a","l"," ","a","s","s","e","s","s","m","e","n","t",","," ","t","h","e"," ","p","a","t","i","e","n","t"," ","w","a","r","r","a","n","t","s"," ","c","l","o","s","e"," ","m","o","n","i","t","o","r","i","n","g",".">>>>
                 ELSE <<>>)
             \o <<<<"\n","(","N","o","t","e",":"," ","T","h","i","s"," ","i","s"," ","a"," ","l","o","c","a","l"," ","d","e","m","o"," ","s","t","u","b","."," ","F","o","r"," ","f","u","l","l"," ","r","e","a","s","o","n","i","n","g",","," ","s","w","i","t","c","h"," ","t","o"," ","O","l","l","a","m","a"," ","o","r"," ","O","p","e","n","A","I"," ","m","o","d","e",".",")">>>>)

\* The branch call_local_stub takes: its tests in the order of the code.
StubBranch(system_prompt, user_prompt) ==
    IF \/ Contains(lower(user_prompt), <<"u","s","e","r"," ","q","u","e","s","t","i","o","n">>)
       \/ Contains(lower(user_prompt), <<"c","h","a","t"," ","h","i","s","t","o","r","y">>)
    THEN "chat"
    ELSE IF \/ Contains(lower(user_prompt), <<"d","i","f","f","e","r","e","n","t","i","a","l"," ","d","i","a","g","n","o","s","e","s">>)
            \/ Contains(lower(user_prompt), <<"j","s","o","n"," ","a","r","r","a","y">>)
            \/ Contains(lower(user_prompt), <<"s","t","e","p","1","_","o","u","t","p","u","t">>)
            \/ Contains(lower(system_prompt), <<"r","e","a","s","o","n","i","n","g"," ","e","n","g","i","n","e">>)
    THEN "ddx"
    ELSE IF \/ Contains(upper(system_prompt), <<"S","O","A","P">>)
            \/ Contains(lower(system_prompt), <<"s","u","m","m","a","r","i","z","e","r">>)
    THEN "soap"
    ELSE IF Contains(lower(system_prompt), <<"e","x","t","r","a","c","t">>) THEN "extract"
    ELSE "other"

\* call_local_stub(system_prompt, user_prompt, ...). `order` is the iteration
\* order of sets of identifiers, which only the differential branch uses.
call_local_stub(system_prompt, user_prompt, order) ==
    CASE StubBranch(system_prompt, user_prompt) = "chat" -> StubChat(user_prompt)
      [] StubBranch(system_prompt, user_prompt) = "ddx" -> StubDdx(user_prompt, order)
      [] StubBranch(system_prompt, user_prompt) = "soap" -> StubSoap(lower(user_prompt))
      [] StubBranch(system_prompt, user_prompt) = "extract" -> StubExtract(user_prompt)
      [] OTHER -> <<"L","O","C","A","L","_","S","T","U","B","_","R","E","S","P","O","N","S","E">>

\* The four diagnoses of call_local_stub of src/src/llm_service.py.
PipelineDiagnoses(has, lowered) == <<
    [made |-> (has.fever /\ has.neck /\ has.headache) \/ has.meningeal,
     keywords |-> <<<<"f","e","v","e","r">>, <<"n","e","c","k">>, <<"n","u","c","h","a","l">>, <<"h","e","a","d","a","c","h","e">>, <<"m","e","n","i","n","g","e","a","l">>>>,
     diagnosis |-> <<"B","a","c","t","e","r","i","a","l"," ","M","e","n","i","n","g","i","t","i","s">>,
     confidence |-> <<"H","i","g","h">>,
     rationale |-> <<"C","l","a","s","s","i","c"," ","t","r","i","a","d"," ","o","f"," ","f","e","v","e","r",","," ","s","e","v","e","r","e"," ","h","e","a","d","a","c","h","e",","," ","a","n","d"," ","n","u","c","h","a","l"," ","r","i","g","i","d","i","t","y"," ","w","i","t","h"," ","p","o","s","i","t","i","v","e"," ","m","e","n","i","n","g","e","a","l"," ","s","i","g","n","s",".">>],
    [made |-> has.fever /\ (has.cough \/ has.sob) /\ has.elevated_wbc,
     keywords |-> <<<<"f","e","v","e","r">>, <<"c","o","u","g","h">>, <<"b","r","e","a","t","h">>, <<"w","b","c">>>>,
     diagnosis |-> <<"C","o","m","m","u","n","i","t","y","-","A","c","q","u","i","r","e","d"," ","P","n","e","u","m","o","n","i","a">>,
     confidence |-> <<"H","i","g","h">>,
     rationale |-> <<"F","e","v","e","r"," ","w","i","t","h"," ","r","e","s","p","i","r","a","t","o","r","y"," ","s","y","m","p","t","o","m","s"," ","a","n","d"," ","l","e","u","k","o","c","y","t","o","s","i","s"," ","s","u","g","g","e","s","t","s"," ","b","a","c","t","e","r","i","a","l"," ","p","n","e","u","m","o","n","i","a",".">>],
    [made |-> has.chest_pain /\ (has.troponin \/ has.sob),
     keywords |-> <<<<"c","h","e","s","t">>, <<"p","a","i","n">>, <<"t","r","o","p","o","n","i","n">>>>,
     diagnosis |-> <<"A","c","u","t","e"," ","M","y","o","c","a","r","d","i","a","l"," ","I","n","f","a","r","c","t","i","o","n">>,
     confidence |-> <<"H","i","g","h">>,
     rationale |-> <<"C","h","e","s","t"," ","p","a","i","n"," ","w","i","t","h"," ","e","l","e","v","a","t","e","d"," ","t","r","o","p","o","n","i","n"," ","o","r"," ","a","s","s","o","c","i","a","t","e","d"," ","s","y","m","p","t","o","m","s"," ","c","o","n","c","e","r","n","i","n","g"," ","f","o","r"," ","a","c","u","t","e"," ","M","I",".">>],
    [made |-> has.fever /\ has.elevated_wbc
                /\ (has.confusion \/ Contains(lowered, <<"h","y","p","o","t","e","n","s","i","o","n">>)),
     keywords |-> <<<<"f","e","v","e","r">>, <<"w","b","c">>, <<"c","o","n","f","u","s","i","o","n">>, <<"p","r","e","s","s","u","r","e">>>>,
     diagnosis |-> <<"S","e","p","s","i","s">>,
     confidence |-> <<"H","i","g","h">>,
     rationale |-> <<"F","e","v","e","r"," ","w","i","t","h"," ","l","e","u","k","o","c","y","t","o","s","i","s"," ","a","n","d"," ","a","l","t","e","r","e","d"," ","m","e","n","t","a","l"," ","s","t","a","t","u","s"," ","c","o","n","c","e","r","n","i","n","g"," ","f","o","r"," ","s","e","p","s","i","s",".">>] >>

PipelineDdxList(user_prompt, order) ==
    LET ds  == PipelineDiagnoses(DdxFlags(lower(user_prompt)), lower(user_prompt))
        ddx == flatten([k \in 1..Len(ds) |->
                   IF ds[k].made
                   THEN <<DdxEntry(ds[k].diagnosis, ds[k].confidence, ds[k].rationale,
                                   EvidenceOf(user_prompt, ds[k].keywords, order))>>
                   ELSE <<>>])
    IN  JList(take(IF ddx = <<>> THEN <<Undifferentiated>> ELSE ddx, 3))

\* The branch call_local_stub of src/src/llm_service.py takes: the
\* differential branch comes first and there is no chat branch.
PipelineStubBranch(system_prompt, user_prompt) ==
    IF \/ Contains(lower(user_prompt), <<"d","i","f","f","e","r","e","n","t","i","a","l"," ","d","i","a","g","n","o","s","e","s">>)
       \/ Contains(lower(user_prompt), <<"j","s","o","n"," ","a","r","r","a","y">>)
       \/ Contains(lower(user_prompt), <<"s","t","e","p","1","_","o","u","t","p","u","t">>)
       \/ Contains(lower(system_prompt), <<"r","e","a","s","o","n","i","n","g"," ","e","n","g","i","n","e">>)
    THEN "ddx"
    ELSE IF \/ Contains(upper(system_prompt), <<"S","O","A","P">>)
            \/ Contains(lower(system_prompt), <<"s","u","m","m","a","r","i","z","e","r">>)
    THEN "soap"
    ELSE IF Contains(lower(system_prompt), <<"e","x","t","r","a","c","t">>) THEN "extract"
    ELSE "other"

\* call_local_stub of src/src/llm_service.py: the branches other than the
\* differential return fixed texts.
pipeline_call_local_stub(system_prompt, user_prompt, order) ==
    CASE PipelineStubBranch(system_prompt, user_prompt) = "ddx" ->
             json_dumps(PipelineDdxList(user_prompt, order))
      [] PipelineStubBranch(system_prompt, user_prompt) = "soap" ->
             <<"S",":"," ","S","y","m","p","t","o","m","s",".",".",".","\n","O",":"," ","V","i","t","a","l","s",".",".",".","\n","A",":"," ","A","s","s","e","s","s","m","e","n","t",".",".",".","\n","P",":"," ","P","l","a","n",".",".",".">>
      [] PipelineStubBranch(system_prompt, user_prompt) = "extract" ->
             <<"1","."," ","D","e","m","o","g","r","a","p","h","i","c","s",":"," ",".",".",".","\n","2","."," ","S","y","m","p","t","o","m","s",":"," ",".",".",".","\n","3","."," ","V","i","t","a","l","s",":"," ",".",".",".","\n","4","."," ","L","a","b","s",":"," ",".",".",".","\n","5","."," ","A","s","s","e","s","s","m","e","n","t",":"," ",".",".",".">>
      [] OTHER -> <<"L","O","C","A","L","_","S","T","U","B","_","R","E","S","P","O","N","S","E">>

-----------------------------------------------------------------------------
(* The orchestrators: analyze_clinical_note (rag_service.py), its copy     *)
(* generate_summary_and_ddx (src/src/rag_pipeline.py) and chat_with_note.   *)

\* top_k of generate_summary_and_ddx
PIPELINE_TOP_K == 8

Orchestrators == {"rag_service", "rag_pipeline"}

\* The notes analysed: the empty one, and a note of two sections whose facts
\* make the stub name a diagnosis.
NoteCough == <<"H","P","I",":"," ","f","e","v","e","r"," ","c","o","u","g","h","\n","L","A","B","S",":"," ","w","b","c">>

AnDocs == {<<>>, NoteCough}

\* The modes each orchestrator is run in.
AnModes(module) ==
    IF module = "rag_service" THEN {"local_stub", "ollama", "colab_t4"}
    ELSE {"local_stub", "openai"}

AnTopKs(module) == IF module = "rag_service" THEN {1, TOP_K} ELSE {PIPELINE_TOP_K}

\* What a model may answer when the backend works: a JSON array that cites an
\* identifier, and prose.
ResponseTexts == {
    <<"[","{","\"","d","i","a","g","n","o","s","i","s","\"",":"," ","\"","I","n","f","l","u","e","n","z","a","\"",","," ","\"","c","o","n","f","i","d","e","n","c","e","\"",":"," ","\"","L","o","w","\"",","," ","\"","r","a","t","i","o","n","a","l","e","\"",":"," ","\"","S","e","a","s","o","n","a","l",".","\"",","," ","\"","e","v","i","d","e","n","c","e","\"",":"," ","[","\"","0","_","H","P","I","_","7","_","d","e","a","d","b","e","e","f","\"","]","}","]">>,
    <<"T","h","e"," ","n","o","t","e"," ","i","s"," ","t","o","o"," ","s","h","o","r","t"," ","t","o"," ","a","n","a","l","y","s","e",".">> }

\* str(e) of the exception a refused connection raises.
ExcDetail == <<"C","o","n","n","e","c","t","i","o","n"," ","r","e","f","u","s","e","d">>

\* The texts behind the outcomes of BackendOutcome.
MessageText(msg) ==
    IF msg = "response" THEN ResponseTexts
    ELSE IF msg = "response.text" THEN {<<"<","h","t","m","l",">","B","a","d"," ","G","a","t","e","w","a","y","<","/","h","t","m","l",">">>}
    ELSE IF msg = "ERROR: Ollama is not running" THEN {<<"E","R","R","O","R",":"," ","O","l","l","a","m","a"," ","i","s"," ","n","o","t"," ","r","u","n","n","i","n","g","."," ","P","l","e","a","s","e"," ","s","t","a","r","t"," ","O","l","l","a","m","a"," ","w","i","t","h"," ","'","o","l","l","a","m","a"," ","s","e","r","v","e","'"," ","a","n","d"," ","e","n","s","u","r","e"," ","y","o","u"," ","h","a","v","e"," ","a"," ","m","o","d","e","l"," ","i","n","s","t","a","l","l","e","d"," ","(","e",".","g",".",","," ","'","o","l","l","a","m","a"," ","p","u","l","l"," ","l","l","a","m","a","3",".","2",":","3","b","'",")">>}
    ELSE IF msg = "ERROR: Ollama request timed out" THEN {<<"E","R","R","O","R",":"," ","O","l","l","a","m","a"," ","r","e","q","u","e","s","t"," ","t","i","m","e","d"," ","o","u","t","."," ","T","h","e"," ","f","i","r","s","t"," ","r","e","q","u","e","s","t"," ","c","a","n"," ","t","a","k","e"," ","s","i","g","n","i","f","i","c","a","n","t","l","y"," ","l","o","n","g","e","r"," ","(","u","p"," ","t","o"," ","5"," ","m","i","n","s",")"," ","a","s"," ","t","h","e"," ","m","o","d","e","l"," ","l","o","a","d","s"," ","i","n","t","o"," ","R","A","M","."," ","P","l","e","a","s","e"," ","t","r","y"," ","a","g","a","i","n"," ","-"," ","s","u","b","s","e","q","u","e","n","t"," ","r","e","q","u","e","s","t","s"," ","w","i","l","l"," ","b","e"," ","f","a","s","t","e","r","!">>}
    ELSE IF msg = "ERROR: Ollama HTTP error"
    THEN {<<"E","R","R","O","R",":"," ","O","l","l","a","m","a"," ","H","T","T","P"," ","e","r","r","o","r",":"," ">> \o ExcDetail \o <<"."," ","M","a","k","e"," ","s","u","r","e"," ","L","l","a","m","a"," ","3",".","2"," ","m","o","d","e","l"," ","i","s"," ","i","n","s","t","a","l","l","e","d"," ","w","i","t","h"," ","'","o","l","l","a","m","a"," ","p","u","l","l"," ","l","l","a","m","a","3",".","2",":","3","b","'">>}
    ELSE IF msg = "ERROR calling Ollama" THEN {<<"E","R","R","O","R"," ","c","a","l","l","i","n","g"," ","O","l","l","a","m","a",":"," ">> \o ExcDetail}
    ELSE IF msg = "Error calling Colab T4" THEN {<<"E","r","r","o","r"," ","c","a","l","l","i","n","g"," ","C","o","l","a","b"," ","T","4",":"," ">> \o ExcDetail}
    ELSE IF msg = "ERROR: API key not found in environment"
    THEN {<<"E","R","R","O","R",":"," ","G","R","O","Q","_","A","P","I","_","K","E","Y"," ","n","o","t"," ","f","o","u","n","d"," ","i","n"," ","e","n","v","i","r","o","n","m","e","n","t","."," ","G","e","t"," ","f","r","e","e"," ","k","e","y"," ","a","t"," ","h","t","t","p","s",":","/","/","c","o","n","s","o","l","e",".","g","r","o","q",".","c","o","m">>}
    ELSE {<<"E","R","R","O","R"," ","c","a","l","l","i","n","g"," ","G","r","o","q",":"," ">> \o ExcDetail}

\* The faults the backends run under while an orchestrator runs.
AnFaults == {"none", "connection"}

\* The orders in which the stub may iterate its sets of identifiers; the
\* branches other than the differential iterate none.
StubOrders(module, system_prompt, user_prompt) ==
    IF "ddx" = (IF module = "rag_service" THEN StubBranch(system_prompt, user_prompt)
                ELSE PipelineStubBranch(system_prompt, user_prompt))
    THEN SetOrders(BracketIds(user_prompt))
    ELSE {<<>>}

\* call_llm(system_prompt, user_prompt, ..., llm_mode): every outcome it can
\* have, a returned text or an exception.
call_llm(module, mode, system_prompt, user_prompt) ==
    LET b == Dispatch(module, mode)
    IN  IF b = "call_local_stub"
        THEN {Returned(IF module = "rag_service"
                       THEN call_local_stub(system_prompt, user_prompt, o)
                       ELSE pipeline_call_local_stub(system_prompt, user_prompt, o)) :
                 o \in StubOrders(module, system_prompt, user_prompt)}
        ELSE UNION {LET out == BackendOutcome(b, f)
                    IN  IF out.kind = "raise" THEN {[kind |-> "raise", text |-> ExcDetail]}
                        ELSE {Returned(t) : t \in MessageText(out.text)} :
                       f \in AnFaults}

\* ContextItem that leaves the identifier and the section out.
ContextItem_textonly(r) == r.text

\* context_parts / "\n\n".join(context_parts)
ContextItem(r) == <<"[">> \o r.chunk_id \o <<"]","[">> \o r.section \o <<"]",":"," ">> \o r.text

BuildContext(rs) == join(<<"\n","\n">>, [i \in 1..Len(rs) |-> ContextItem(rs[i])])

\* The prompts of the three generation steps.
step1_system == <<"Y","o","u"," ","a","r","e"," ","a"," ","c","l","i","n","i","c","a","l"," ","e","x","t","r","a","c","t","o","r","."," ","E","x","t","r","a","c","t"," ","a","n","d"," ","o","r","g","a","n","i","z","e"," ","f","a","c","t","s"," ","f","r","o","m"," ","t","h","e"," ","p","r","o","v","i","d","e","d"," ","c","o","n","t","e","x","t"," ","i","n","t","o"," ","c","a","t","e","g","o","r","i","e","s","."," ","D","o"," ","n","o","t"," ","m","a","k","e"," ","d","i","a","g","n","o","s","e","s",".">>

step1_user(context) == <<"C","O","N","T","E","X","T",":","\n">> \o context \o <<"\n","\n","E","x","t","r","a","c","t"," ","i","n","t","o"," ","c","a","t","e","g","o","r","i","e","s",":","\n","1","."," ","P","a","t","i","e","n","t"," ","H","i","s","t","o","r","y"," ","&"," ","D","e","m","o","g","r","a","p","h","i","c","s",":","\n","2","."," ","C","h","i","e","f"," ","C","o","m","p","l","a","i","n","t"," ","&"," ","S","y","m","p","t","o","m","s",":","\n","3","."," ","P","h","y","s","i","c","a","l"," ","E","x","a","m"," ","&"," ","V","i","t","a","l","s",":","\n","4","."," ","K","e","y"," ","L","a","b"," ","&"," ","I","m","a","g","i","n","g"," ","F","i","n","d","i","n","g","s",":","\n","5","."," ","C","l","i","n","i","c","i","a","n","'","s"," ","S","t","a","t","e","d"," ","A","s","s","e","s","s","m","e","n","t",":","\n","\n","I","n","c","l","u","d","e"," ","c","h","u","n","k"," ","i","d","s"," ","i","n"," ","b","r","a","c","k","e","t","s"," ","a","f","t","e","r"," ","e","a","c","h"," ","f","i","n","d","i","n","g",".">>

step2_system(module) ==
    IF module = "rag_service"
    THEN <<"Y","o","u"," ","a","r","e"," ","a","n"," ","e","x","p","e","r","t"," ","c","l","i","n","i","c","a","l"," ","r","e","a","s","o","n","i","n","g"," ","e","n","g","i","n","e"," ","a","n","d"," ","d","i","a","g","n","o","s","t","i","c"," ","s","p","e","c","i","a","l","i","s","t","."," ","\n","Y","o","u","r"," ","t","a","s","k"," ","i","s"," ","t","o"," ","a","n","a","l","y","z","e"," ","t","h","e"," ","s","t","r","u","c","t","u","r","e","d"," ","c","l","i","n","i","c","a","l"," ","f","a","c","t","s"," ","a","n","d"," ","p","r","o","d","u","c","e"," ","a"," ","c","o","m","p","r","e","h","e","n","s","i","v","e",","," ","e","v","i","d","e","n","c","e","-","b","a","s","e","d"," ","d","i","f","f","e","r","e","n","t","i","a","l"," ","d","i","a","g","n","o","s","i","s",".","\n","B","e"," ","t","h","o","r","o","u","g","h"," ","i","n"," ","y","o","u","r"," ","c","l","i","n","i","c","a","l"," ","r","e","a","s","o","n","i","n","g"," ","a","n","d"," ","p","r","o","v","i","d","e"," ","a","c","t","i","o","n","a","b","l","e"," ","i","n","s","i","g","h","t","s",".">>
    ELSE <<"Y","o","u"," ","a","r","e"," ","a"," ","c","l","i","n","i","c","a","l"," ","r","e","a","s","o","n","i","n","g"," ","e","n","g","i","n","e","."," ","U","s","e"," ","O","N","L","Y"," ","t","h","e"," ","s","t","r","u","c","t","u","r","e","d"," ","f","a","c","t","s"," ","p","r","o","v","i","d","e","d"," ","f","r","o","m"," ","S","t","e","p"," ","1"," ","t","o"," ","p","r","o","d","u","c","e"," ","a"," ","p","r","i","o","r","i","t","i","z","e","d"," ","d","i","f","f","e","r","e","n","t","i","a","l"," ","d","i","a","g","n","o","s","i","s",".">>

step2_user(module, step1_output) ==
    IF module = "rag_service"
    THEN <<"S","T","E","P","1","_","O","U","T","P","U","T"," ","(","E","x","t","r","a","c","t","e","d"," ","C","l","i","n","i","c","a","l"," ","F","a","c","t","s",")",":","\n">> \o step1_output \o <<"\n","\n","T","A","S","K",":"," ","G","e","n","e","r","a","t","e"," ","a"," ","d","e","t","a","i","l","e","d"," ","d","i","f","f","e","r","e","n","t","i","a","l"," ","d","i","a","g","n","o","s","i","s"," ","a","n","a","l","y","s","i","s",".","\n","\n","P","r","o","v","i","d","e"," ","t","h","e"," ","t","o","p"," ","3","-","5"," ","d","i","f","f","e","r","e","n","t","i","a","l"," ","d","i","a","g","n","o","s","e","s"," ","a","s"," ","a"," ","J","S","O","N"," ","a","r","r","a","y","."," ","F","o","r"," ","E","A","C","H"," ","d","i","a","g","n","o","s","i","s",","," ","i","n","c","l","u","d","e",":","\n","-"," ","\"","d","i","a","g","n","o","s","i","s","\"",":"," ","T","h","e"," ","s","p","e","c","i","f","i","c"," ","d","i","a","g","n","o","s","i","s"," ","n","a","m","e","\n","-"," ","\"","c","o","n","f","i","d","e","n","c","e","\"",":"," ","\"","H","i","g","h","\"",","," ","\"","M","e","d","i","u","m","\"",","," ","o","r"," ","\"","L","o","w","\""," ","b","a","s","e","d"," ","o","n"," ","h","o","w"," ","w","e","l","l"," ","i","t"," ","f","i","t","s"," ","t","h","e"," ","c","l","i","n","i","c","a","l"," ","p","i","c","t","u","r","e","\n","-"," ","\"","r","a","t","i","o","n","a","l","e","\"",":"," ","A"," ","d","e","t","a","i","l","e","d"," ","2","-","4"," ","s","e","n","t","e","n","c","e"," ","e","x","p","l","a","n","a","t","i","o","n"," ","c","o","v","e","r","i","n","g",":","\n"," "," ","*"," ","K","e","y"," ","c","l","i","n","i","c","a","l"," ","f","i","n","d","i","n","g","s"," ","t","h","a","t"," ","s","u","p","p","o","r","t"," ","t","h","i","s"," ","d","i","a","g","n","o","s","i","s","\n"," "," ","*"," ","P","a","t","h","o","p","h","y","s","i","o","l","o","g","i","c","a","l"," ","r","e","a","s","o","n","i","n","g","\n"," "," ","*"," ","W","h","y"," ","t","h","i","s"," ","i","s"," ","r","a","n","k","e","d"," ","a","t"," ","t","h","i","s"," ","c","o","n","f","i","d","e","n","c","e"," ","l","e","v","e","l","\n","-"," ","\"","e","v","i","d","e","n","c","e","\"",":"," ","L","i","s","t"," ","o","f"," ","c","h","u","n","k","_","i","d"," ","s","t","r","i","n","g","s"," ","t","h","a","t"," ","s","u","p","p","o","r","t"," ","t","h","i","s"," ","d","i","a","g","n","o","s","i","s","\n","-"," ","\"","w","o","r","k","u","p","\"",":"," ","R","e","c","o","m","m","e","n","d","e","d"," ","d","i","a","g","n","o","s","t","i","c"," ","t","e","s","t","s","/","s","t","u","d","i","e","s"," ","t","o"," ","c","o","n","f","i","r","m"," ","o","r"," ","r","u","l","e"," ","o","u","t"," ","t","h","i","s"," ","d","i","a","g","n","o","s","i","s","\n","-"," ","\"","r","e","d","_","f","l","a","g","s","\"",":"," ","A","n","y"," ","c","o","n","c","e","r","n","i","n","g"," ","f","i","n","d","i","n","g","s"," ","t","h","a","t"," ","r","e","q","u","i","r","e"," ","u","r","g","e","n","t"," ","a","t","t","e","n","t","i","o","n","\n","\n","C","o","n","s","i","d","e","r",":","\n","1","."," ","M","o","s","t"," ","l","i","k","e","l","y"," ","d","i","a","g","n","o","s","i","s"," ","b","a","s","e","d"," ","o","n"," ","t","h","e"," ","c","l","i","n","i","c","a","l"," ","p","r","e","s","e","n","t","a","t","i","o","n","\n","2","."," ","L","i","f","e","-","t","h","r","e","a","t","e","n","i","n","g"," ","c","o","n","d","i","t","i","o","n","s"," ","t","h","a","t"," ","m","u","s","t"," ","n","o","t"," ","b","e"," ","m","i","s","s","e","d"," ","(","\"","c","a","n","n","o","t","-","m","i","s","s","\""," ","d","i","a","g","n","o","s","e","s",")","\n","3","."," ","C","o","m","m","o","n"," ","c","o","n","d","i","t","i","o","n","s"," ","t","h","a","t"," ","p","r","e","s","e","n","t"," ","s","i","m","i","l","a","r","l","y","\n","\n","R","e","t","u","r","n"," ","O","N","L","Y"," ","v","a","l","i","d"," ","J","S","O","N"," ","a","r","r","a","y",","," ","n","o"," ","o","t","h","e","r"," ","t","e","x","t",".">>
    ELSE <<"S","T","E","P","1","_","O","U","T","P","U","T",":","\n">> \o step1_output \o <<"\n","\n","T","a","s","k",":"," ","P","r","o","v","i","d","e"," ","t","h","e"," ","t","o","p"," ","3"," ","d","i","f","f","e","r","e","n","t","i","a","l"," ","d","i","a","g","n","o","s","e","s"," ","a","s"," ","a"," ","J","S","O","N"," ","a","r","r","a","y",".">>

soap_system(module) ==
    IF module = "rag_service"
    THEN <<"Y","o","u"," ","a","r","e"," ","a"," ","p","r","o","f","e","s","s","i","o","n","a","l"," ","m","e","d","i","c","a","l"," ","s","u","m","m","a","r","i","z","a","t","i","o","n"," ","a","g","e","n","t","."," ","P","r","o","d","u","c","e"," ","a"," ","c","o","n","c","i","s","e",","," ","f","a","c","t","u","a","l"," ","S","O","A","P"," ","n","o","t","e"," ","u","s","i","n","g"," ","o","n","l","y"," ","t","h","e"," ","c","o","n","t","e","x","t"," ","g","i","v","e","n",".">>
    ELSE <<"Y","o","u"," ","a","r","e"," ","a"," ","p","r","o","f","e","s","s","i","o","n","a","l"," ","m","e","d","i","c","a","l"," ","s","u","m","m","a","r","i","z","a","t","i","o","n"," ","a","g","e","n","t","."," ","P","r","o","d","u","c","e"," ","a"," ","c","o","n","c","i","s","e",","," ","f","a","c","t","u","a","l"," ","S","O","A","P"," ","n","o","t","e"," ","u","s","i","n","g"," ","o","n","l","y"," ","t","h","e"," ","c","o","n","t","e","x","t"," ","g","i","v","e","n"," ","b","e","l","o","w",".">>

soap_user(context) == <<"C","O","N","T","E","X","T",":","\n">> \o context \o <<"\n","\n","P","r","o","d","u","c","e"," ","S","O","A","P",":"," ","S"," ","(","S","u","b","j","e","c","t","i","v","e",")",","," ","O"," ","(","O","b","j","e","c","t","i","v","e",")",","," ","A"," ","(","A","s","s","e","s","s","m","e","n","t",")",","," ","P"," ","(","P","l","a","n",")",".">>

\* The differential analyze_clinical_note substitutes in mode colab_t4.
SkippedForT4 == <<"[","\n"," "," "," "," "," "," "," "," "," "," "," "," ","{","\n"," "," "," "," "," "," "," "," "," "," "," "," "," "," "," "," ","\"","d","i","a","g","n","o","s","i","s","\"",":"," ","\"","D","i","f","f","e","r","e","n","t","i","a","l"," ","D","i","a","g","n","o","s","i","s"," ","(","S","k","i","p","p","e","d"," ","f","o","r"," ","T","4",")","\"",",","\n"," "," "," "," "," "," "," "," "," "," "," "," "," "," "," "," ","\"","c","o","n","f","i","d","e","n","c","e","\"",":"," ","\"","L","o","w","\"",",","\n"," "," "," "," "," "," "," "," "," "," "," "," "," "," "," "," ","\"","r","a","t","i","o","n","a","l","e","\"",":"," ","\"","C","o","m","p","l","e","x"," ","r","e","a","s","o","n","i","n","g"," ","s","t","e","p"," ","s","k","i","p","p","e","d"," ","f","o","r"," ","o","p","t","i","m","i","z","a","t","i","o","n"," ","o","n"," ","T","4"," ","i","n","s","t","a","n","c","e"," ","a","s"," ","p","e","r"," ","c","o","n","f","i","g","u","r","a","t","i","o","n",".","\"",",","\n"," "," "," "," "," "," "," "," "," "," "," "," "," "," "," "," ","\"","e","v","i","d","e","n","c","e","\"",":"," ","[","]",",","\n"," "," "," "," "," "," "," "," "," "," "," "," "," "," "," "," ","\"","w","o","r","k","u","p","\"",":"," ","\"","N","/","A","\"",",","\n"," "," "," "," "," "," "," "," "," "," "," "," "," "," "," "," ","\"","r","e","d","_","f","l","a","g","s","\"",":"," ","\"","N","/","A","\"","\n"," "," "," "," "," "," "," "," "," "," "," "," ","}","\n"," "," "," "," "," "," "," "," ","]">>

\* The ticks time.time() may have advanced by.
Elapsed == {0, 1}

\* One entry of ops and one of llm_calls.
Op(name, caller, size) == [op |-> name, by |-> caller, n |-> size]

LlmCall(caller, sys, usr, out) ==
    [by |-> caller, system_prompt |-> sys, user_prompt |-> usr, output |-> out]

AnInit ==
    /\ an \in {[IdleAn EXCEPT !.module = m, !.pc = "start", !.full_text = d,
                              !.llm_mode = lm, !.top_k = k] :
                 m \in Orchestrators, d \in AnDocs,
                 lm \in AnModes("rag_service") \cup AnModes("rag_pipeline"),
                 k \in AnTopKs("rag_service") \cup AnTopKs("rag_pipeline")}
    /\ an.llm_mode \in AnModes(an.module)
    /\ an.top_k \in AnTopKs(an.module)
    /\ ch = IdleCh
    /\ llm_calls = <<>>
    /\ ops = <<>>
    /\ embedder_cache = EmptyCache
    /\ loads = NoLoads
    /\ ge = [t \in Threads |-> IdleThread]
    /\ RouteIdle
    /\ LlmIdle
    /\ PipeIdle
    /\ ChunkerIdle
    /\ IndexIdle
    /\ ServiceIdle

rest_of_orch == <<pipe_vars, chunker_vars, index_vars, service_vars, ge,
                  route_vars, llm_vars>>

\* embedder = get_embedder(use_small=use_small_embedder); the caller of
\* generate_summary_and_ddx loads the model itself and passes it in.
AnGetEmbedder ==
    /\ an.pc = "start"
    /\ LET g == get_embedder(embedder_cache, loads, an.use_small_embedder)
       IN  /\ embedder_cache' = g.cache
           /\ loads' = g.loads
           /\ an' = [an EXCEPT !.embedder = g.result, !.pc = "embedder"]
    /\ ops' = IF an.module = "rag_service"
              THEN Append(ops, Op("get_embedder", "analyze", 0)) ELSE ops
    /\ UNCHANGED <<ch, llm_calls>>
    /\ UNCHANGED rest_of_orch

\* chunks = prepare_chunks_from_text(full_text)
AnPrepare ==
    /\ an.pc = "embedder"
    /\ \E uuids \in [1..UuidDraws(split_into_sections(an.full_text), 1) -> Uuids] :
          an' = [an EXCEPT !.chunks = prepare_chunks_from_text(an.full_text, 0, uuids),
                           !.pc = "chunked"]
    /\ ops' = Append(ops, Op("prepare_chunks_from_text", "analyze", 0))
    /\ UNCHANGED <<ch, llm_calls, cache_vars>>
    /\ UNCHANGED rest_of_orch

\* index, id_map, embeddings = build_index_from_chunks(chunks, embedder)
AnBuild ==
    /\ an.pc = "chunked"
    /\ LET b == build_index_from_chunks(an.chunks, an.embedder)
       IN  an' = [an EXCEPT !.index = b.index, !.id_map = b.id_map,
                            !.pc = IF b.error = "none" THEN "indexed" ELSE "raised"]
    /\ ops' = Append(ops, Op("build_index_from_chunks", "analyze", Len(an.chunks)))
    /\ UNCHANGED <<ch, llm_calls, cache_vars>>
    /\ UNCHANGED rest_of_orch

\* retrieved = retrieve_from_index(full_text, embedder, index, id_map, top_k)
AnRetrieve ==
    /\ an.pc = "indexed"
    /\ \E labels \in SearchLabels(an.index, QueryRow(an.full_text, an.embedder), an.top_k) :
          LET r == retrieve_from_index(an.full_text, an.embedder, an.index, an.id_map,
                                       an.top_k, labels, an.chunks)
          IN  an' = [an EXCEPT !.retrieved = r.results, !.chunks = r.heap,
                               !.pc = IF r.error = "none" THEN "retrieved" ELSE "raised"]
    /\ ops' = Append(ops, Op("retrieve_from_index", "analyze", an.top_k))
    /\ UNCHANGED <<ch, llm_calls, cache_vars>>
    /\ UNCHANGED rest_of_orch

\* The loop over retrieved and the join: the context of the prompts.
AnContext ==
    /\ an.pc = "retrieved"
    /\ an' = [an EXCEPT !.context = BuildContext(an.retrieved), !.pc = "context"]
    /\ UNCHANGED <<ch, llm_calls, ops, cache_vars>>
    /\ UNCHANGED rest_of_orch

\* step1_output = call_llm(step1_system, step1_user, llm_mode=llm_mode)
AnStep1 ==
    /\ an.pc = "context"
    /\ \E out \in call_llm(an.module, an.llm_mode, step1_system, step1_user(an.context)) :
          IF out.kind = "raise"
          THEN /\ an' = [an EXCEPT !.pc = "raised"]
               /\ llm_calls' = Append(llm_calls, LlmCall("analyze", step1_system,
                                                         step1_user(an.context), <<>>))
          ELSE /\ an' = [an EXCEPT !.step1_output = out.text, !.pc = "step1"]
               /\ llm_calls' = Append(llm_calls, LlmCall("analyze", step1_system,
                                                         step1_user(an.context), out.text))
    /\ ops' = Append(ops, Op("call_llm", "analyze", 1))
    /\ UNCHANGED <<ch, cache_vars>>
    /\ UNCHANGED rest_of_orch

\* The second step: in mode colab_t4 analyze_clinical_note takes a fixed
\* text and calls nothing; otherwise step2_output = call_llm(...).
AnStep2 ==
    /\ an.pc = "step1"
    /\ IF an.module = "rag_service" /\ an.llm_mode = "colab_t4"
       THEN /\ an' = [an EXCEPT !.step2_output = SkippedForT4, !.pc = "step2"]
            /\ UNCHANGED <<llm_calls, ops>>
       ELSE LET sys == step2_system(an.module)
                usr == step2_user(an.module, an.step1_output)
            IN  /\ \E out \in call_llm(an.module, an.llm_mode, sys, usr) :
                      IF out.kind = "raise"
                      THEN /\ an' = [an EXCEPT !.pc = "raised"]
                           /\ llm_calls' = Append(llm_calls, LlmCall("analyze", sys, usr, <<>>))
                      ELSE /\ an' = [an EXCEPT !.step2_output = out.text, !.pc = "step2"]
                           /\ llm_calls' = Append(llm_calls,
                                                  LlmCall("analyze", sys, usr, out.text))
                /\ ops' = Append(ops, Op("call_llm", "analyze", 2))
    /\ UNCHANGED <<ch, cache_vars>>
    /\ UNCHANGED rest_of_orch

\* soap_output = call_llm(soap_system, soap_user, llm_mode=llm_mode)
AnSoap ==
    /\ an.pc = "step2"
    /\ LET sys == soap_system(an.module)
           usr == soap_user(an.context)
       IN  \E out \in call_llm(an.module, an.llm_mode, sys, usr) :
              IF out.kind = "raise"
              THEN /\ an' = [an EXCEPT !.pc = "raised"]
                   /\ llm_calls' = Append(llm_calls, LlmCall("analyze", sys, usr, <<>>))
              ELSE /\ an' = [an EXCEPT !.soap_output = out.text, !.pc = "soap"]
                   /\ llm_calls' = Append(llm_calls, LlmCall("analyze", sys, usr, out.text))
    /\ ops' = Append(ops, Op("call_llm", "analyze", 3))
    /\ UNCHANGED <<ch, cache_vars>>
    /\ UNCHANGED rest_of_orch

\* ParseDdx that reports no error when the text does not parse.
ParseDdx_silent(step2_output) ==
    Bind(json_loads(step2_output), LAMBDA parsed :
         [ddx_json |-> IF parsed.ok THEN parsed.value ELSE None, parse_error |-> None])

\* try: ddx_json = json.loads(step2_output) except Exception as e:
\* parse_error = str(e)
ParseDdx(step2_output) ==
    Bind(json_loads(step2_output), LAMBDA parsed :
         IF parsed.ok THEN [ddx_json |-> parsed.value, parse_error |-> None]
         ELSE [ddx_json |-> None, parse_error |-> JStr(parsed.error)])

\* The dict each orchestrator returns.
AnResult(a, elapsed) ==
    Bind(ParseDdx(a.step2_output), LAMBDA p :
        IF a.module = "rag_service"
        THEN [soap |-> a.soap_output,
              step1_facts |-> a.step1_output,
              step2_ddx_raw |-> a.step2_output,
              ddx |-> p.ddx_json,
              ddx_parse_error |-> p.parse_error,
              retrieved_chunks |-> a.retrieved,
              all_chunks |-> a.chunks,
              processing_time |-> elapsed]
        ELSE [soap |-> a.soap_output,
              step1 |-> a.step1_output,
              step2_raw |-> a.step2_output,
              ddx |-> p.ddx_json,
              ddx_parse_error |-> p.parse_error,
              retrieved |-> a.retrieved,
              all_chunks |-> a.chunks])

\* The parse of the differential and the return.
AnReturn ==
    /\ an.pc = "soap"
    /\ \E elapsed \in Elapsed :
          an' = [an EXCEPT !.result = AnResult(an, elapsed), !.pc = "returned"]
    /\ UNCHANGED <<ch, llm_calls, ops, cache_vars>>
    /\ UNCHANGED rest_of_orch

-----------------------------------------------------------------------------
(* chat_with_note (chat_service.py)                                        *)

\* d.get(key, default) on a dict held as a function of its keys.
dict_get(d, key, default) == IF key \in DOMAIN d THEN d[key] ELSE default

\* d.get(key, default) on a decoded JSON object: the last member of that name.
json_get(d, key, default) ==
    LET hits == {i \in 1..Len(d.v) : d.v[i].key = key}
    IN  IF hits = {} THEN default
        ELSE d.v[CHOOSE i \in hits : \A j \in hits : j <= i].value

\* bool(x) of a decoded JSON value.
Truthy(x) ==
    IF x.t = "null" THEN FALSE
    ELSE IF x.t = "bool" THEN x.v = <<"t","r","u","e">>
    ELSE IF x.t = "num"
    THEN \E i \in 1..Len(x.v) :
            /\ x.v[i] \in {"1", "2", "3", "4", "5", "6", "7", "8", "9"}
            /\ \A j \in 1..i : x.v[j] \notin {"e", "E"}
    ELSE x.v # <<>>

\* repr(x) of a decoded JSON value (strings without quotes or backslashes).
RECURSIVE py_repr(_)
py_repr(x) ==
    IF x.t = "null" THEN <<"N","o","n","e">>
    ELSE IF x.t = "bool" THEN title(x.v)
    ELSE IF x.t = "num" THEN x.v
    ELSE IF x.t = "str" THEN <<"'">> \o x.v \o <<"'">>
    ELSE IF x.t = "list"
    THEN <<"[">> \o join(<<","," ">>, [i \in 1..Len(x.v) |-> py_repr(x.v[i])]) \o <<"]">>
    ELSE <<"{">> \o join(<<","," ">>, [i \in 1..Len(x.v) |->
                     <<"'">> \o x.v[i].key \o <<"'",":"," ">> \o py_repr(x.v[i].value)]) \o <<"}">>

\* What an f-string puts for {x}: str(x).
format_value(x) == IF x.t = "str" THEN x.v ELSE py_repr(x)

\* One line of ddx_text.
DdxLine(d) ==
    <<"-"," ">> \o format_value(json_get(d, <<"d","i","a","g","n","o","s","i","s">>, JStr(<<"U","n","k","n","o","w","n">>)))
         \o <<":"," ">> \o format_value(json_get(d, <<"c","o","n","f","i","d","e","n","c","e">>, JStr(<<"U","n","k","n","o","w","n">>)))
         \o <<" ","c","o","n","f","i","d","e","n","c","e"," ","-"," ">> \o format_value(json_get(d, <<"r","a","t","i","o","n","a","l","e">>, JStr(<<>>)))

\* The comprehension over ddx runs only over a list of objects: d.get on
\* anything else, or iterating a number, raises.
DdxIterable(ddx) == ddx.t = "list" /\ \A i \in 1..Len(ddx.v) : ddx.v[i].t = "dict"

ddx_text(ddx) == join(<<"\n">>, [i \in 1..Len(ddx.v) |-> DdxLine(ddx.v[i])])

\* One item of chunk_context.
ChunkLine(r) == <<"[">> \o r.chunk_id \o <<"]"," ","(">> \o r.section \o <<")",":"," ">> \o r.text

\* full_context
full_context(soap, ddx, rs) ==
    join(<<"\n","\n">>,
         <<<<"S","O","A","P"," ","S","u","m","m","a","r","y",":","\n">> \o soap>>
         \o (IF Truthy(ddx) THEN <<<<"\n","D","i","f","f","e","r","e","n","t","i","a","l"," ","D","i","a","g","n","o","s","e","s",":","\n">> \o ddx_text(ddx)>> ELSE <<>>)
         \o <<<<"\n","R","e","l","e","v","a","n","t"," ","E","v","i","d","e","n","c","e",":","\n">>
              \o join(<<"\n","\n">>, [i \in 1..Len(rs) |-> ChunkLine(rs[i])])>>)

\* xs[-n:]
last_n(xs, n) == SubSeq(xs, Max(1, Len(xs) - n + 1), Len(xs))

\* history_text: the last five messages.
history_text(chat_history) ==
    LET msgs == last_n(chat_history, 5)
    IN  join(<<"\n">>, [i \in 1..Len(msgs) |->
                       upper(dict_get(msgs[i], "role", <<"u","s","e","r">>)) \o <<":"," ">>
                       \o dict_get(msgs[i], "content", <<>>)])

chat_system_prompt == <<"Y","o","u"," ","a","r","e"," ","a"," ","c","l","i","n","i","c","a","l"," ","A","I"," ","a","s","s","i","s","t","a","n","t"," ","h","e","l","p","i","n","g"," ","u","s","e","r","s"," ","u","n","d","e","r","s","t","a","n","d"," ","a"," ","c","l","i","n","i","c","a","l"," ","n","o","t","e"," ","a","n","a","l","y","s","i","s","."," ","\n","Y","o","u"," ","h","a","v","e"," ","a","c","c","e","s","s"," ","t","o",":","\n","1","."," ","T","h","e"," ","S","O","A","P"," ","s","u","m","m","a","r","y","\n","2","."," ","D","i","f","f","e","r","e","n","t","i","a","l"," ","d","i","a","g","n","o","s","e","s"," ","w","i","t","h"," ","c","o","n","f","i","d","e","n","c","e"," ","l","e","v","e","l","s","\n","3","."," ","R","e","l","e","v","a","n","t"," ","e","v","i","d","e","n","c","e"," ","c","h","u","n","k","s"," ","f","r","o","m"," ","t","h","e"," ","o","r","i","g","i","n","a","l"," ","n","o","t","e","\n","\n","A","n","s","w","e","r"," ","t","h","e"," ","u","s","e","r","'","s"," ","q","u","e","s","t","i","o","n"," ","u","s","i","n","g"," ","O","N","L","Y"," ","t","h","e"," ","p","r","o","v","i","d","e","d"," ","c","o","n","t","e","x","t","."," ","B","e"," ","s","p","e","c","i","f","i","c"," ","a","n","d"," ","c","i","t","e"," ","c","h","u","n","k"," ","I","D","s"," ","w","h","e","n"," ","r","e","f","e","r","e","n","c","i","n","g"," ","e","v","i","d","e","n","c","e",".","\n","I","f"," ","t","h","e"," ","q","u","e","s","t","i","o","n"," ","c","a","n","n","o","t"," ","b","e"," ","a","n","s","w","e","r","e","d"," ","f","r","o","m"," ","t","h","e"," ","c","o","n","t","e","x","t",","," ","s","a","y"," ","s","o"," ","c","l","e","a","r","l","y",".">>

chat_user_prompt(context, history, question) ==
    <<"C","O","N","T","E","X","T",":","\n">> \o context \o <<"\n","\n">>
    \o (IF history # <<>> THEN <<"C","H","A","T"," ","H","I","S","T","O","R","Y",":","\n">> \o history \o <<"\n">> ELSE <<>>)
    \o <<"\n","U","S","E","R"," ","Q","U","E","S","T","I","O","N",":"," ">> \o question
    \o <<"\n","\n","P","l","e","a","s","e"," ","p","r","o","v","i","d","e"," ","a"," ","c","l","e","a","r",","," ","e","v","i","d","e","n","c","e","-","b","a","s","e","d"," ","a","n","s","w","e","r"," ","c","i","t","i","n","g"," ","s","p","e","c","i","f","i","c"," ","c","h","u","n","k"," ","I","D","s"," ","w","h","e","r","e"," ","a","p","p","l","i","c","a","b","l","e",".">>

\* The answer when there is nothing to chat about.
NoContextAnswer == <<"N","o"," ","a","n","a","l","y","s","i","s"," ","c","o","n","t","e","x","t"," ","a","v","a","i","l","a","b","l","e","."," ","P","l","e","a","s","e"," ","a","n","a","l","y","z","e"," ","a"," ","c","l","i","n","i","c","a","l"," ","n","o","t","e"," ","f","i","r","s","t",".">>

\* What the client sends with a question: the result of the analysis, the
\* result without its chunks, or the result with an empty chunk list.
ContextVariants == {"result", "no_chunks", "empty_chunks"}

AnalysisContext(res, variant) ==
    IF variant = "result" THEN res
    ELSE IF variant = "no_chunks" THEN [k \in (DOMAIN res) \ {"all_chunks"} |-> res[k]]
    ELSE [res EXCEPT !.all_chunks = <<>>]

\* The questions, histories and modes of the chat requests.
ChInputs == {
    [question |-> <<"w","h","a","t"," ","a","b","o","u","t"," ","t","h","e"," ","f","e","v","e","r"," ","a","n","d"," ","t","h","e"," ","h","e","a","d","a","c","h","e">>, chat_history |-> <<>>,
     llm_mode |-> "local_stub"],
    [question |-> <<"w","b","c","?">>,
     chat_history |-> <<[role |-> <<"a","s","s","i","s","t","a","n","t">>, content |-> <<"A","s","k"," ","m","e",".">>], [content |-> <<"h","i">>]>>,
     llm_mode |-> "ollama"] }

\* chat_with_note is called on the result of an analysis, whose frame is gone
\* (llm_calls and ops start again: they log one invocation); lines 42-44 read
\* the context.
ChStart ==
    /\ an.pc = "returned"
    /\ an.module = "rag_service"
    /\ ch.pc = "idle"
    /\ \E variant \in ContextVariants, inp \in ChInputs :
          LET ctx == AnalysisContext(an.result, variant)
          IN  ch' = [IdleCh EXCEPT !.pc = "entered",
                                   !.question = inp.question,
                                   !.analysis_context = ctx,
                                   !.chat_history = inp.chat_history,
                                   !.llm_mode = inp.llm_mode,
                                   !.all_chunks = dict_get(ctx, "all_chunks", <<>>),
                                   !.soap = dict_get(ctx, "soap", <<>>),
                                   !.ddx = dict_get(ctx, "ddx", JList(<<>>))]
    /\ an' = IdleAn
    /\ llm_calls' = <<>>
    /\ ops' = <<>>
    /\ UNCHANGED cache_vars
    /\ UNCHANGED rest_of_orch

\* if not all_chunks: return the fixed answer
ChNoContext ==
    /\ ch.pc = "entered"
    /\ ch.all_chunks = <<>>
    /\ ch' = [ch EXCEPT !.result = [answer |-> NoContextAnswer,
                                    relevant_chunks |-> <<>>,
                                    sources |-> <<>>],
                        !.pc = "returned"]
    /\ UNCHANGED <<an, llm_calls, ops, cache_vars>>
    /\ UNCHANGED rest_of_orch

\* embedder = get_embedder(use_small=False)
ChGetEmbedder ==
    /\ ch.pc = "entered"
    /\ ch.all_chunks # <<>>
    /\ LET g == get_embedder(embedder_cache, loads, FALSE)
       IN  /\ embedder_cache' = g.cache
           /\ loads' = g.loads
           /\ ch' = [ch EXCEPT !.embedder = g.result, !.pc = "embedder"]
    /\ ops' = Append(ops, Op("get_embedder", "chat", 0))
    /\ UNCHANGED <<an, llm_calls>>
    /\ UNCHANGED rest_of_orch

\* index, id_map, _ = build_index_from_chunks(all_chunks, embedder)
ChBuild ==
    /\ ch.pc = "embedder"
    /\ LET b == build_index_from_chunks(ch.all_chunks, ch.embedder)
       IN  ch' = [ch EXCEPT !.index = b.index, !.id_map = b.id_map,
                            !.pc = IF b.error = "none" THEN "indexed" ELSE "raised"]
    /\ ops' = Append(ops, Op("build_index_from_chunks", "chat", Len(ch.all_chunks)))
    /\ UNCHANGED <<an, llm_calls, cache_vars>>
    /\ UNCHANGED rest_of_orch

\* retrieved = retrieve_from_index(query=question, ..., top_k=top_k)
ChRetrieve ==
    /\ ch.pc = "indexed"
    /\ \E labels \in SearchLabels(ch.index, QueryRow(ch.question, ch.embedder), ch.top_k) :
          LET r == retrieve_from_index(ch.question, ch.embedder, ch.index, ch.id_map,
                                       ch.top_k, labels, ch.all_chunks)
          IN  ch' = [ch EXCEPT !.retrieved = r.results, !.all_chunks = r.heap,
                               !.pc = IF r.error = "none" THEN "retrieved" ELSE "raised"]
    /\ ops' = Append(ops, Op("retrieve_from_index", "chat", ch.top_k))
    /\ UNCHANGED <<an, llm_calls, cache_vars>>
    /\ UNCHANGED rest_of_orch

\* Lines 66-123: the prompt is put together and call_llm gives the answer.
ChAnswer ==
    /\ ch.pc = "retrieved"
    /\ IF Truthy(ch.ddx) /\ ~DdxIterable(ch.ddx)
       THEN /\ ch' = [ch EXCEPT !.pc = "raised"]
            /\ UNCHANGED <<llm_calls, ops>>
       ELSE LET usr == chat_user_prompt(full_context(ch.soap, ch.ddx, ch.retrieved),
                                        history_text(ch.chat_history), ch.question)
            IN  /\ \E out \in call_llm("rag_service", ch.llm_mode, chat_system_prompt, usr) :
                      IF out.kind = "raise"
                      THEN /\ ch' = [ch EXCEPT !.pc = "raised"]
                           /\ llm_calls' = Append(llm_calls,
                                  LlmCall("chat", chat_system_prompt, usr, <<>>))
                      ELSE /\ ch' = [ch EXCEPT !.answer = out.text, !.pc = "answered"]
                           /\ llm_calls' = Append(llm_calls,
                                  LlmCall("chat", chat_system_prompt, usr, out.text))
                /\ ops' = Append(ops, Op("call_llm", "chat", 1))
    /\ UNCHANGED <<an, cache_vars>>
    /\ UNCHANGED rest_of_orch

\* sources = [r['chunk_id'] for r in retrieved] and the return.
ChReturn ==
    /\ ch.pc = "answered"
    /\ \E elapsed \in Elapsed :
          ch' = [ch EXCEPT !.result = [answer |-> ch.answer,
                                       relevant_chunks |-> ch.retrieved,
                                       sources |-> [i \in 1..Len(ch.retrieved) |->
                                                       ch.retrieved[i].chunk_id],
                                       processing_time |-> elapsed],
                           !.pc = "returned"]
    /\ UNCHANGED <<an, llm_calls, ops, cache_vars>>
    /\ UNCHANGED rest_of_orch

AnalyzeNext ==
    \/ AnGetEmbedder
    \/ AnPrepare
    \/ AnBuild
    \/ AnRetrieve
    \/ AnContext
    \/ AnStep1
    \/ AnStep2
    \/ AnSoap
    \/ AnReturn
    \/ ChStart
    \/ ChNoContext
    \/ ChGetEmbedder
    \/ ChBuild
    \/ ChRetrieve
    \/ ChAnswer
    \/ ChReturn

AnalyzeSpec == AnInit /\ [][AnalyzeNext]_vars

-----------------------------------------------------------------------------
(* Claims about empty windows and the UNLABELED label                      *)

\* C27: for every text and every max_chars >= 1 no window that chunk_text
\* returns is the empty string, a text holding a run of whitespace at least
\* max_chars long included; empty and whitespace-only input return no window.
C27_NoEmptyWindow ==
    (ct_pc = "done" /\ max_chars >= 1) =>
        /\ \A i \in 1..Len(ct_chunks) : Len(ct_chunks[i]) >= 1
        /\ strip(ct_arg) = <<>> => ct_chunks = <<>>

\* C28 as stated: no chunk labelled UNLABELED carries the text of a recognized
\* header, a document made only of headers with empty bodies included.
C28_NoHeaderUnderUnlabeled ==
    pc = "chunked" =>
        \A i \in 1..Len(chunks) :
            chunks[i].section = UNLABELED => NoHeaderIn(chunks[i].text)

\* C28: a chunk labelled UNLABELED carries no text of a recognized header
\* (it is text before the first header, or of a header-less document), except
\* the single fallback chunk of a document that yields no window, which
\* carries the whole input, headers included.
C28_UnlabeledLeadOrFallback ==
    pc = "chunked" =>
        \A i \in 1..Len(chunks) :
            chunks[i].section = UNLABELED =>
                \/ NoHeaderIn(chunks[i].text)
                \/ /\ DocWindows(full_text) = <<>>
                   /\ Len(chunks) = 1
                   /\ chunks[i].text = full_text

\* A document with text before its first header: an UNLABELED chunk next to
\* a labelled one.
C28_Witness ==
    /\ pc = "chunked"
    /\ \E i, j \in 1..Len(chunks) :
          /\ chunks[i].section = UNLABELED
          /\ chunks[i].text # <<>>
          /\ chunks[j].section # UNLABELED
          /\ ~NoHeaderIn(full_text)

-----------------------------------------------------------------------------
(* Claims about the routes and the generation backends                     *)

\* C29: a request whose text (analyze) or question (chat, general chat) is
\* empty or whitespace-only is answered with HTTP 400, never 500, and the
\* service is not called.
C29_BlankTextIs400 ==
    (route_pc = "sent" /\ Blank(req_text)) =>
        /\ response.status_code = 400
        /\ service_calls = 0

\* C21: a failure of the generation backend never leaves call_llm as an
\* exception: in both modules, for every mode, call_llm returns a string.
C21_CallLlmNeverRaises ==
    llm_pc = "done" => llm_result.kind = "str"

\* The backend the documentation of rag_service.call_llm names for a mode.
NamedBackend(mode) ==
    IF mode = "ollama" THEN "call_ollama"
    ELSE IF mode = "groq" THEN "call_groq"
    ELSE IF mode = "gemini" THEN "call_gemini"
    ELSE "call_local_stub"

\* C26: rag_service.call_llm calls the backend its mode names: call_ollama for
\* ollama, call_groq for groq, call_gemini for gemini, and the local stub
\* only for local_stub; the default mode of the general chat, groq, is
\* answered by Groq.
C26_DispatchByMode ==
    (/\ llm_pc \in {"backend", "done"}
     /\ llm_module = "rag_service"
     /\ llm_mode \in {"local_stub", "ollama", "groq", "gemini"}) =>
        backend = NamedBackend(llm_mode)

-----------------------------------------------------------------------------
(* Claims about the result of an analysis                                  *)

\* The keys of the dict analyze_clinical_note returns.
ResultKeys ==
    {"soap", "step1_facts", "step2_ddx_raw", "ddx", "ddx_parse_error",
     "retrieved_chunks", "all_chunks", "processing_time"}

\* C22: whatever texts the three generation steps return, error messages and
\* prose included, analyze_clinical_note does not raise and returns a dict
\* with the eight keys, in which step2_ddx_raw is the output of the
\* differential step as it came; when that text is not valid JSON, ddx is
\* None and ddx_parse_error is a non-empty message, and when it is, ddx is
\* the decoded value and ddx_parse_error is None. An error message of a
\* backend is never valid JSON. generate_summary_and_ddx parses the same way.
C22_StructuredResult ==
    /\ ~(an.module = "rag_service" /\ an.pc = "raised")
    /\ (an.module = "rag_service" /\ an.pc = "returned") =>
          /\ DOMAIN an.result = ResultKeys
          /\ an.result.soap = an.soap_output
          /\ an.result.step1_facts = an.step1_output
          /\ an.result.step2_ddx_raw = an.step2_output
          /\ IF json_loads(an.step2_output).ok
             THEN /\ an.result.ddx = json_loads(an.step2_output).value
                  /\ an.result.ddx_parse_error = None
             ELSE /\ an.result.ddx = None
                  /\ an.result.ddx_parse_error.t = "str"
                  /\ an.result.ddx_parse_error.v # <<>>
          /\ startswith(an.step2_output, <<"E","R","R","O","R">>) => an.result.ddx = None
    /\ (an.module = "rag_pipeline" /\ an.pc = "returned") =>
          /\ an.result.step2_raw = an.step2_output
          /\ IF json_loads(an.step2_output).ok
             THEN /\ an.result.ddx = json_loads(an.step2_output).value
                  /\ an.result.ddx_parse_error = None
             ELSE /\ an.result.ddx = None
                  /\ an.result.ddx_parse_error.t = "str"
                  /\ an.result.ddx_parse_error.v # <<>>

\* analyze_clinical_note has returned after the differential step gave the
\* error message of a backend.
C22_Witness ==
    /\ an.module = "rag_service"
    /\ an.pc = "returned"
    /\ startswith(an.result.step2_ddx_raw, <<"E","R","R","O","R",":"," ","O","l","l","a","m","a"," ","i","s"," ","n","o","t"," ","r","u","n","n","i","n","g">>)
    /\ an.result.ddx = None
    /\ an.result.ddx_parse_error = JStr(<<"E","x","p","e","c","t","i","n","g"," ","v","a","l","u","e",":"," ","l","i","n","e"," ","1"," ","c","o","l","u","m","n"," ","1"," ","(","c","h","a","r"," ","0",")">>)

\* The strings in the evidence lists of the entries of a decoded differential.
EvidenceStrings(ddx) ==
    IF ddx.t # "list" THEN {}
    ELSE UNION {LET ev == json_get(ddx.v[i], <<"e","v","i","d","e","n","c","e">>, JList(<<>>))
                IN  IF ev.t # "list" THEN {}
                    ELSE {ev.v[j].v : j \in {n \in 1..Len(ev.v) : ev.v[n].t = "str"}} :
                   i \in {n \in 1..Len(ddx.v) : ddx.v[n].t = "dict"}}

ChunkIds(cs) == {cs[i].chunk_id : i \in 1..Len(cs)}

\* C23: in a result of analyze_clinical_note whose differential was decoded,
\* every string of every evidence list is the chunk_id of a chunk of
\* all_chunks.
C23_EvidenceResolves ==
    (an.module = "rag_service" /\ an.pc = "returned" /\ an.result.ddx # None) =>
        EvidenceStrings(an.result.ddx) \subseteq ChunkIds(an.result.all_chunks)

\* Each item is the copy of exactly one chunk of `every`, and no chunk is
\* there twice.
EachFromOneChunk(items, every) ==
    /\ \A i \in 1..Len(items) :
          Cardinality({j \in 1..Len(every) :
                          /\ every[j].chunk_id = items[i].chunk_id
                          /\ every[j].section = items[i].section
                          /\ every[j].text = items[i].text}) = 1
    /\ \A i, k \in 1..Len(items) : i # k => items[i].chunk_id # items[k].chunk_id

\* '[chunk_id][section]: text' for each item in order, a blank line between
\* neighbours.
RECURSIVE ItemsInOrder(_, _)
ItemsInOrder(items, i) ==
    IF i > Len(items) THEN <<>>
    ELSE <<"[">> \o items[i].chunk_id \o <<"]","[">> \o items[i].section \o <<"]",":"," ">> \o items[i].text
         \o (IF i < Len(items) THEN <<"\n","\n">> ELSE <<>>) \o ItemsInOrder(items, i + 1)

\* C24: in a result of analyze_clinical_note every item of retrieved_chunks
\* has the chunk_id, section and text of exactly one chunk of all_chunks and
\* no chunk is retrieved twice; the context the generation steps were given
\* is one item '[chunk_id][section]: text' per retrieved chunk in retrieval
\* order. In a result of chat_with_note relevant_chunks stands in the same
\* relation to the all_chunks of the context, and sources lists the chunk_ids
\* of relevant_chunks in order.
C24_RetrievedResolve ==
    /\ (an.module = "rag_service" /\ an.pc = "returned") =>
          /\ EachFromOneChunk(an.result.retrieved_chunks, an.result.all_chunks)
          /\ an.context = ItemsInOrder(an.result.retrieved_chunks, 1)
          /\ llm_calls[1].user_prompt = step1_user(ItemsInOrder(an.result.retrieved_chunks, 1))
          /\ llm_calls[Len(llm_calls)].user_prompt =
                soap_user(ItemsInOrder(an.result.retrieved_chunks, 1))
    /\ (ch.pc = "returned" /\ ch.result.answer # NoContextAnswer) =>
          /\ EachFromOneChunk(ch.result.relevant_chunks, ch.analysis_context.all_chunks)
          /\ ch.result.sources = [i \in 1..Len(ch.result.relevant_chunks) |->
                                     ch.result.relevant_chunks[i].chunk_id]
          /\ ch.result.relevant_chunks # <<>>

\* An analysis of a note of two chunks has returned with both retrieved, and
\* the context holds the two items.
C24_Witness ==
    /\ an.module = "rag_service"
    /\ an.pc = "returned"
    /\ Len(an.result.all_chunks) = 2
    /\ Len(an.result.retrieved_chunks) = 2
    /\ an.result.retrieved_chunks[1].chunk_id # an.result.retrieved_chunks[2].chunk_id
    /\ Len(an.context) > Len(ItemsInOrder(<<an.result.retrieved_chunks[1]>>, 1))

\* The positions in ops of the operations of one name.
OpsNamed(name) == {i \in 1..Len(ops) : ops[i].op = name}

\* C25: every run of analyze_clinical_note, in every mode, calls the
\* generation capability exactly three times: the fact extraction on the
\* retrieved context, then the differential step with the output of the fact
\* extraction in its user instruction, then the SOAP step on the retrieved
\* context; chunking, indexing and retrieval are over before the first call.
C25_ThreeCallsInOrder ==
    (an.module = "rag_service" /\ an.pc = "returned") =>
        /\ Len(llm_calls) = 3
        /\ llm_calls[1].system_prompt = step1_system
        /\ llm_calls[1].user_prompt = step1_user(an.context)
        /\ llm_calls[2].system_prompt = step2_system("rag_service")
        /\ Contains(llm_calls[2].user_prompt, llm_calls[1].output)
        /\ llm_calls[3].system_prompt = soap_system("rag_service")
        /\ llm_calls[3].user_prompt = soap_user(an.context)
        /\ \A i \in OpsNamed("prepare_chunks_from_text") \cup OpsNamed("build_index_from_chunks")
                    \cup OpsNamed("retrieve_from_index") :
              \A j \in OpsNamed("call_llm") : i < j

-----------------------------------------------------------------------------
(* Claims about the empty chunk list                                       *)

\* C30: build_index_from_chunks is never called with an empty list of
\* chunks: analyze_clinical_note and generate_summary_and_ddx pass the one
\* chunk or more that prepare_chunks_from_text gave them, and chat_with_note,
\* given a context whose all_chunks is missing or empty, returns the 'No
\* analysis context available' answer with empty relevant_chunks and sources
\* and has neither loaded the embedder, built an index, retrieved, nor
\* called the generation capability.
C30_NeverAnEmptyIndex ==
    /\ \A i \in OpsNamed("build_index_from_chunks") : ops[i].n >= 1
    /\ an.pc \in {"chunked", "indexed", "retrieved", "context", "step1", "step2", "soap",
                  "returned"} => Len(an.chunks) >= 1
    /\ (ch.pc # "idle" /\ dict_get(ch.analysis_context, "all_chunks", <<>>) = <<>>) =>
          /\ ch.pc \in {"entered", "returned"}
          /\ ops = <<>>
          /\ llm_calls = <<>>
          /\ ch.embedder = NoEmbedder
          /\ ch.index = NoIndex
          /\ ch.pc = "returned" =>
                ch.result = [answer |-> NoContextAnswer, relevant_chunks |-> <<>>,
                             sources |-> <<>>]

\* chat_with_note has returned on a context that has no all_chunks.
C30_Witness ==
    /\ ch.pc = "returned"
    /\ "all_chunks" \notin DOMAIN ch.analysis_context
    /\ ch.result.answer = NoContextAnswer
    /\ ch.result.sources = <<>>
    /\ ops = <<>>

====
